---- MODULE Spec2Model ----
(***************************************************************************)
(* Connection manager (src-tauri/src/socket_client.rs) and the automation  *)
(* bridge's connect tool (src-tauri/src/mcp_server.rs) as a state machine. *)
(* Caller threads run connect / disconnect / emit step by step, one step   *)
(* per critical section or transport call; the transport fires callbacks   *)
(* from the worker thread of each client handle.                           *)
(***************************************************************************)
EXTENDS Integers, Sequences, FiniteSets, TLC

\* ------------------------------------------------------------------ bounds
MaxCalls == 2          \* operations invoked in a run in which callbacks fire
MaxCallbacks == 2      \* transport callbacks fired in one run
MaxQuietCalls == 3     \* operations invoked in a run in which no callback fires

Ids == {1, 2}          \* connection ids
Threads == {"t1", "t2"}
Handles == 1..MaxQuietCalls \* every connect call builds at most one client
NoClient == 0          \* Option<Client>::None
NoActive == 0          \* Option<i64>::None

\* ------------------------------------------------- persistence port (db.rs)
\* Stored profiles: id 1 exists, id 2 has no profile.
ProfileIds == {1}
\* db::get_connection_by_id: whether the row is found; a stored profile can have
\* been deleted (db::delete_connection) by the time connect reads it.
db_get_connection_by_id(id) == IF id \in ProfileIds THEN BOOLEAN ELSE {FALSE}
\* connection_events rows of a profile: <<event_name, is_listening>>.
db_list_connection_events(id) ==
    IF id = 1 THEN << <<"chat", TRUE>>, <<"news", FALSE>> >> ELSE << >>
\* Auto-send flags of the stored profile.
db_auto_connect(id) == id = 1
db_auto_reconnect(id) == FALSE

InboundNames == {"chat", "news"}   \* event names the server sends
EmitNames == {"ping"}              \* event names a caller emits
Payloads == {"{}"}                 \* payload texts a caller emits
ListenerInputs == {"news", " "}    \* arguments of add_listener
Reasons == {"manual"}              \* socket_disconnect passes "manual"

VARIABLES
    connections,           \* HashMap<i64, ConnectionState>
    active_connection_id,  \* Option<i64>
    connecting,            \* HashSet<i64>: the connecting guard
    connected_once,        \* HashSet<i64>
    held,                  \* thread -> manager locks it holds
    call,                  \* thread -> the operation it is executing
    ret,                   \* what the call that returned in this step returned
    handles,               \* handle -> transport client
    cb,                    \* handle -> callback its worker thread is running
    db_write_ok,           \* whether the Persistence Port accepts writes
    history,               \* event_history rows
    published,             \* Notification Sink log
    sent,                  \* emits the transport accepted
    auto_send_spawned,     \* id -> auto-send threads spawned
    ncalls, ncbs,          \* operations invoked / callbacks fired so far
    removed_since,         \* id -> a disconnect(id) returned; no connect(id) or
                           \* add_listener(id) began since that call began
    attempted,             \* id -> a connect(id) passed the guard, no disconnect removal since
    touched,               \* id -> connect/add_listener made the entry, no disconnect removal since
    ring,                  \* an EventBuffer on its own: capacity, events, what was pushed and listed
    batch,                 \* the first auto-send thread spawned for a profile
    bridge,                \* the HTTP bridge: requests in flight, push channel, streams
    store,                 \* the connection_events table and the bridge's listener tools in flight
    rec                    \* emit_status and emit_event calls in progress on their threads, with the clock

manager == << connections, active_connection_id, connecting, connected_once, held,
              call, ret, handles, cb, db_write_ok, history, published, sent,
              auto_send_spawned, ncalls, ncbs, removed_since, attempted, touched >>

\* What the manager's operations leave alone.
aux == << ring, batch, bridge, store, rec >>

vars == << connections, active_connection_id, connecting, connected_once, held,
           call, ret, handles, cb, db_write_ok, history, published, sent,
           auto_send_spawned, ncalls, ncbs, removed_since, attempted, touched,
           ring, batch, bridge, store, rec >>

\* A run is cut off after MaxCalls operations and MaxCallbacks callbacks, or after
\* MaxQuietCalls operations when no callback has fired.
CallBudget == ncalls < MaxCalls \/ (ncalls < MaxQuietCalls /\ ncbs = 0)
CallbackBudget == ncbs < MaxCallbacks /\ ncalls <= MaxCalls

\* ------------------------------------------------------------ EventBuffer
EventBufferMaxSize == 100

RECURSIVE pop_front_while_over(_, _)
pop_front_while_over(events, max_size) ==
    IF Len(events) > max_size
    THEN pop_front_while_over(Tail(events), max_size)
    ELSE events

\* db::list_auto_send_messages: the profile's auto-send templates, in order
\* (event name, payload).
db_list_auto_send_messages(id) ==
    IF id = 1 THEN << << "hello", "{}" >>, << "join", "{}" >>, << "ready", "{}" >> >>
    ELSE << >>

\* An auto-send thread: its position in do_auto_send, the templates it fetched,
\* the one it is at, the client emit_message took, the status its last check
\* read, the templates it handed to the transport and the emit_logs rows it wrote.
NoBatch ==
    [pc |-> "idle", id |-> 0, messages |-> << >>, i |-> 0, h |-> 0,
     saw |-> "", handed |-> << >>, emit_logs |-> << >>]

\* ------------------------------------------------------------ the bridge
Slots == {1, 2}
Subscribers == {1, 2}

\* serde_json values as the bridge reads them: a member that is absent, a number,
\* or a string.
JAbsent == [kind |-> "absent", s |-> ""]
JNumber == [kind |-> "number", s |-> "42"]
JString(s) == [kind |-> "string", s |-> s]

\* Value::as_str: Some(s) for a string, None otherwise.
as_str(v) == [some |-> v.kind = "string", s |-> IF v.kind = "string" THEN v.s ELSE ""]

\* JsonRpcRequest: id (Option<Value>; "none" when absent), method, and of params
\* the members the bridge reads.
JsonRpcRequest(id, method, name, event_name, payload) ==
    [id |-> id, method |-> method, name |-> name,
     event_name |-> event_name, payload |-> payload]

NoRequest == JsonRpcRequest("none", "", JAbsent, JAbsent, JAbsent)

\* The members of a JsonRpcResponse: result (Option<Value>) and error
\* (Option<JsonRpcError>).
NoResult == [some |-> FALSE, content |-> "", isError |-> FALSE]
NoError == [some |-> FALSE, code |-> 0, message |-> ""]

\* JsonRpcResponse::success
JsonRpcResponse_success(id, result) ==
    [jsonrpc |-> "2.0", id |-> id, result |-> result, error |-> NoError]

\* JsonRpcResponse::error
JsonRpcResponse_error(id, code, message) ==
    [jsonrpc |-> "2.0", id |-> id, result |-> NoResult,
     error |-> [some |-> TRUE, code |-> code, message |-> message]]

NoResponse == JsonRpcResponse_success("", NoResult)

\* A result value: json!({}) and the like have no content block; a tool result has
\* one text block and, for a tool failure, isError: true.
PlainResult(text) == [some |-> TRUE, content |-> text, isError |-> FALSE]
ToolResult(text, is_error) == [some |-> TRUE, content |-> text, isError |-> is_error]

\* Result<Value, String> of execute_tool, with what the tool did to the manager.
ToolOk(text, effect) == [ok |-> TRUE, text |-> text, effect |-> effect]
ToolErr(text) == [ok |-> FALSE, text |-> text, effect |-> "none"]
NoOutcome == ToolErr("")

\* A request slot of the HTTP server: where handle_message is, the request, what
\* execute_tool returned, the response built and the HTTP body returned.
IdleSlot ==
    [pc |-> "idle", request |-> NoRequest, outcome |-> NoOutcome,
     response |-> NoResponse, body |-> ""]

\* McpAppState with a fresh broadcast channel: the request slots, every
\* sse_tx.send made, what each subscribed stream was given, the emit_logs rows.
McpAppState_new ==
    [slots |-> [s \in Slots |-> IdleSlot], channel |-> << >>,
     streams |-> [u \in {} |-> << >>], emit_logs |-> << >>, nrequests |-> 0]

\* The bridge runs its tool calls concurrently (one task per request).
ToolSlots == {1, 2}

\* A listener tool that is not running.
IdleTool == [pc |-> "idle", op |-> "none", name |-> "", mem |-> NoActive,
             conn |-> NoActive, existing |-> << >>]

\* No listener tool has returned yet.
NoToolResult == [op |-> "none", name |-> "", mem |-> NoActive, conn |-> NoActive,
                 res |-> ""]

\* The connection_events table as first read (row id = position), the names added
\* in memory while no connection was active, the listener tools in flight, the
\* tool calls and table edits made so far, what the last tool call returned.
ListenerStore_new ==
    [rows |-> [i \in DOMAIN db_list_connection_events(1) |->
                 [conn |-> 1, name |-> db_list_connection_events(1)[i][1],
                  on |-> db_list_connection_events(1)[i][2]]],
     unbound |-> {},
     tools |-> [s \in ToolSlots |-> IdleTool],
     ntools |-> 0, nedits |-> 0, nret |-> 0,
     last |-> NoToolResult]

\* The threads that call emit_status and emit_event: a transport's callback
\* thread and a command thread.
Workers == {"w1", "w2"}

\* A thread that is in neither call.
IdleWorker == [pc |-> "idle", id |-> 0, status |-> "", name |-> "", dir |-> "",
               ts |-> 0]

\* The clock Utc::now reads, the status writes made to each session so far, the
\* emit calls begun, and where each thread is in its call.
Recorder_new ==
    [clock |-> 0, writes |-> [id \in Ids |-> << >>], nemits |-> 0,
     workers |-> [w \in Workers |-> IdleWorker]]

\* No list_recent call was made on the buffer yet.
NoLimit == -1

\* EventBuffer::new(max_size), with the log of pushes and the last list_recent
\* call (its limit and what it returned).
EventBuffer_new(max_size) ==
    [max_size |-> max_size, events |-> << >>, pushed |-> << >>,
     limit |-> NoLimit, out |-> << >>]

\* Variant: the buffer keeps its oldest events and drops the newest.
EventBuffer_push_keep_oldest(events, max_size, event) ==
    IF Len(events) + 1 > max_size
    THEN SubSeq(Append(events, event), 1, max_size)
    ELSE Append(events, event)

\* EventBuffer::push on a buffer of capacity max_size: push_back, then pop_front
\* while the length is over max_size.
EventBuffer_push(events, max_size, event) ==
    pop_front_while_over(Append(events, event), max_size)

\* Variant: the event is put in front of the buffered ones.
push_front(events, event) == << event >> \o events

\* EventBuffer::push on a session's buffer (capacity EventBufferMaxSize).
push(events, event) == EventBuffer_push(events, EventBufferMaxSize, event)

Min(a, b) == IF a < b THEN a ELSE b

\* Variant: the oldest events first.
list_oldest_first(events, limit) ==
    [ i \in 1..Min(limit, Len(events)) |-> events[i] ]

\* EventBuffer::list_recent: limit.min(len), iter().rev().take(limit).
list_recent(events, limit) ==
    LET n == Len(events)
        k == Min(limit, n)
    IN [ i \in 1..k |-> events[n + 1 - i] ]

\* -------------------------------------------------------- ConnectionState
ConnectionState_new(listening) ==
    [client |-> NoClient, listening_events |-> listening,
     status |-> "disconnected", event_buffer |-> << >>]

has_connected_before(once, id) == id \in once

mark_connected(once, id) == once \cup {id}

\* Variant: the active id is dropped instead of stored.
set_active_connection_internal_none(connection_id) == NoActive

\* *guard = connection_id
set_active_connection_internal(connection_id) == connection_id

\* Variant: the callbacks' session check always passes.
has_connection_always(id) == TRUE

has_connection(id) == id \in DOMAIN connections

\* guard.entry(id).or_insert_with(|| ConnectionState::new(HashSet::new()))
entry_or_insert(conns, id) ==
    IF id \in DOMAIN conns THEN conns ELSE conns @@ (id :> ConnectionState_new({}))

\* Variant: the removal clears the whole map.
map_remove_all(conns, id) == << >>

\* guard.remove(&connection_id)
map_remove(conns, id) == [k \in DOMAIN conns \ {id} |-> conns[k]]

\* Variant: set_status makes the entry when there is none.
set_status_inserting(conns, id, status) ==
    [entry_or_insert(conns, id) EXCEPT ![id].status = status]

\* Variant: writing "disconnected" drops the session.
set_status_dropping(conns, id, status) ==
    IF status = "disconnected" THEN map_remove(conns, id)
    ELSE IF id \in DOMAIN conns THEN [conns EXCEPT ![id].status = status]
    ELSE conns

\* Variant: every status write stores "connected".
set_status_connected(conns, id, status) ==
    IF id \in DOMAIN conns THEN [conns EXCEPT ![id].status = "connected"] ELSE conns

set_status(conns, id, status) ==
    IF id \in DOMAIN conns THEN [conns EXCEPT ![id].status = status] ELSE conns

get_status_for_connection(id) ==
    IF id \in DOMAIN connections THEN connections[id].status ELSE "disconnected"

get_all_statuses == [id \in DOMAIN connections |-> connections[id].status]

should_forward_event(id, name) ==
    id \in DOMAIN connections /\ name \in connections[id].listening_events

\* Variant: without a session for id, the client of some other session is taken.
client_of_any(conns, id) ==
    IF id \in DOMAIN conns THEN conns[id].client
    ELSE IF \E k \in DOMAIN conns : conns[k].client # NoClient
    THEN conns[CHOOSE k \in DOMAIN conns : conns[k].client # NoClient].client
    ELSE NoClient

\* state.client of a session, None when there is no session.
client_of(conns, id) ==
    IF id \in DOMAIN conns THEN conns[id].client ELSE NoClient

\* set_client's critical section: the old client is taken, the new one stored.
set_client(conns, id, client) ==
    [entry_or_insert(conns, id) EXCEPT ![id].client = client]

\* Variant: the fetched names are added to the names already listened to.
set_listening_events_merging(conns, id, events) ==
    [entry_or_insert(conns, id) EXCEPT ![id].listening_events = @ \cup events]

set_listening_events(conns, id, events) ==
    [entry_or_insert(conns, id) EXCEPT ![id].listening_events = events]

\* do_connect: the names of the stored subscriptions with is_listening set.
stored_listening(id) ==
    LET rows == db_list_connection_events(id) IN
    { rows[i][1] : i \in { j \in DOMAIN rows : rows[j][2] } }

\* list_listeners: the names the session forwards, none without a session.
list_listeners(id) ==
    IF id \in DOMAIN connections THEN connections[id].listening_events ELSE {}

\* str::trim on the names used here: strips leading and trailing spaces.
RECURSIVE trim_start(_)
trim_start(s) == IF Len(s) > 0 /\ Head(s) = " " THEN trim_start(Tail(s)) ELSE s
RECURSIVE trim_end(_)
trim_end(s) ==
    IF Len(s) > 0 /\ SubSeq(s, Len(s), Len(s)) = " "
    THEN trim_end(SubSeq(s, 1, Len(s) - 1)) ELSE s
trim(s) == trim_end(trim_start(s))

\* ------------------------------------------------------ events and notes
BufferedEvent(name, payload, dir) ==
    [event_name |-> name, payload |-> payload, direction |-> dir]

StatusNote(id, status) == [topic |-> "socket:status", id |-> id, status |-> status]
EventNote(id, e) == [topic |-> "socket:event", id |-> id, event |-> e]
\* Variant: emit_error publishes a status notification instead.
ErrorNote_as_status(id, msg) == StatusNote(id, "error")
ErrorNote(id, msg) == [topic |-> "socket:error", id |-> id, message |-> msg]

\* Variant: the event is not pushed into the buffer.
record_event_unbuffered(conns, id, e) == conns

\* record_event: push into the buffer when the session exists.
record_event(conns, id, e) ==
    IF id \in DOMAIN conns
    THEN [conns EXCEPT ![id].event_buffer = push(@, e)]
    ELSE conns

\* db::add_event_history; when the write fails the row is lost and a warning logged.
add_event_history(rows, id, e, ok) ==
    IF ok THEN Append(rows, [id |-> id, event |-> e]) ELSE rows

\* --------------------------------------------------------------- threads
IdleCall ==
    [op |-> "idle", id |-> 0, pc |-> "idle", h |-> NoClient, old |-> NoClient,
     res |-> "", tool |-> "none", ev |-> "", payload |-> "", reason |-> "",
     had |-> FALSE, cleared |-> FALSE, overtaken |-> FALSE, listened |-> {}]

NoRet == [op |-> "none", id |-> 0, res |-> ""]
Ret(op, id, res) == [op |-> op, id |-> id, res |-> res]
\* What a listener command returned, with the event_name it was given.
RetArg(op, id, res, arg) == [op |-> op, id |-> id, res |-> res, arg |-> arg]

\* A transport client: the id its callbacks close over, its state, whether the
\* connect call that built it returned Ok, and whether its connect callback has
\* fired with no close/error callback of it and no disconnect(id) since.
NewHandle(id, state) ==
    [id |-> id, state |-> state, returned |-> FALSE, cfired |-> FALSE]

\* disconnect(id) is under way: the connect callbacks of id's handles predate it.
forget_cfired(hs, id) ==
    [h \in DOMAIN hs |->
        IF hs[h].id = id THEN [hs[h] EXCEPT !.cfired = FALSE] ELSE hs[h]]

\* The callback a handle's worker thread is in: its kind, the event name (on_any)
\* and what has_connected_before returned (connect).
NoCallback == [kind |-> "none", name |-> "", before |-> FALSE]

\* A thread takes a new call when it is idle; the two threads are interchangeable,
\* so t2 is used only while t1 is busy.
Free(t) ==
    /\ call[t].pc = "idle"
    /\ t = "t2" => call["t1"].pc # "idle"

\* No thread holds lock l, so a critical section on it can run.
Unlocked(l) == \A t \in Threads : l \notin held[t]

SocketManager_new ==
    /\ connections = << >>
    /\ active_connection_id = NoActive
    /\ connecting = {}
    /\ connected_once = {}
    /\ held = [t \in Threads |-> {}]
    /\ call = [t \in Threads |-> IdleCall]
    /\ ret = NoRet
    /\ handles = [h \in Handles |-> NewHandle(0, "unused")]
    /\ cb = [h \in Handles |-> NoCallback]
    /\ db_write_ok \in BOOLEAN
    /\ history = << >>
    /\ published = << >>
    /\ sent = << >>
    /\ auto_send_spawned = [id \in Ids |-> 0]
    /\ ncalls = 0
    /\ ncbs = 0
    /\ removed_since = [id \in Ids |-> FALSE]
    /\ attempted = [id \in Ids |-> FALSE]
    /\ touched = [id \in Ids |-> FALSE]

Init ==
    /\ SocketManager_new
    /\ rec = Recorder_new
    /\ store = ListenerStore_new
    /\ ring = EventBuffer_new(EventBufferMaxSize)
    /\ batch = NoBatch
    /\ bridge = McpAppState_new

\* -------------------------------------------------------- lock discipline
\* The manager locks a thread still holds when it enters a transport call.
\* do_connect runs after the block that locks the connecting guard has ended.
connect_locks_at_do_connect == {}
\* set_client: the connections guard is dropped before old_client.disconnect().
set_client_locks_at_disconnect == {}
\* Variant: the connections guard is still alive at the transport call.
holds_connections_lock == {"connections"}
\* disconnect_inner: the guard lives only inside the match that removes the entry.
disconnect_inner_locks_at_disconnect == {}
\* emit_message: the guard lives only inside the match that clones the client.
emit_message_locks_at_emit == {}

\* ---------------------------------------------------------------- connect
\* Variant: the guard block never rejects.
guard_never_rejects(guard, id) == FALSE

\* connect's guard block: the call is rejected when the id is in the guard.
guard_rejects(guard, id) == id \in guard

\* reset_connecting_flag: clears the connecting guard.
reset_connecting_flag(guard) == {}

\* The in-flight attempts whose guard entry somebody else drops are marked.
mark_cleared(c, ids, except) ==
    [t \in Threads |->
        IF /\ t # except
           /\ c[t].op = "connect"
           /\ c[t].pc \notin {"idle", "c_guard", "b_reset_err"}
           /\ c[t].id \in ids
        THEN [c[t] EXCEPT !.cleared = TRUE]
        ELSE c[t]]

\* The disconnect(id) calls under way when a connect(id) or add_listener(id) call
\* begins are marked: that call is not later than they are.
mark_overtaken(c, id) ==
    [t \in Threads |->
        IF c[t].op = "disconnect" /\ c[t].id = id
        THEN [c[t] EXCEPT !.overtaken = TRUE]
        ELSE c[t]]

\* A call of thread t ends with result res. The bridge's connect tool, when it is
\* still waiting for the task, gets the result: Ok is returned, an error makes it
\* reset the guard first.
Finish(c, t, res) ==
    IF c[t].tool = "waiting" /\ res # "Ok"
    THEN [c EXCEPT ![t].pc = "b_reset_err", ![t].res = res]
    ELSE [c EXCEPT ![t] = IdleCall]

FinishRet(c, t, res) ==
    IF c[t].tool = "waiting" /\ res # "Ok" THEN NoRet
    ELSE IF c[t].tool = "waiting" THEN Ret("tool_connect", c[t].id, res)
    ELSE IF c[t].tool = "timeout" THEN Ret("task_connect", c[t].id, res)
    ELSE Ret(c[t].op, c[t].id, res)

ConnectGuard(t, id, tool) ==
    LET started == [mark_overtaken(call, id) EXCEPT ![t] =
                      [IdleCall EXCEPT !.op = "connect", !.id = id, !.tool = tool,
                                       !.listened = list_listeners(id) \ stored_listening(id)]]
    IN
    /\ Unlocked("connecting")
    /\ removed_since' = [removed_since EXCEPT ![id] = FALSE]
    /\ IF guard_rejects(connecting, id)
       THEN /\ call' = Finish(started, t, "AlreadyConnecting")
            /\ ret' = FinishRet(started, t, "AlreadyConnecting")
            /\ UNCHANGED << connecting, attempted, held >>
       ELSE /\ connecting' = connecting \cup {id}
            /\ call' = [started EXCEPT ![t].pc = "c_db"]
            /\ ret' = NoRet
            /\ attempted' = [attempted EXCEPT ![id] = TRUE]
            /\ held' = [held EXCEPT ![t] = connect_locks_at_do_connect]

\* SocketManager::connect called by socket_connect.
connect(t, id) ==
    /\ Free(t)
    /\ CallBudget
    /\ ncalls' = ncalls + 1
    /\ ConnectGuard(t, id, "none")
    /\ UNCHANGED << connections, active_connection_id, connected_once, handles, cb,
                    db_write_ok, history, published, sent, auto_send_spawned,
                    ncbs, touched >>
    /\ UNCHANGED aux

\* Variant: connect returns the result and leaves the id in the guard.
connect_keeps_guard(t, res) ==
    /\ connecting' = connecting
    /\ call' = Finish(mark_cleared(call, {call[t].id}, t), t, res)
    /\ ret' = FinishRet(call, t, res)

\* connect: connecting.remove(&connection_id); result.
connect_unguard(t, res) ==
    /\ connecting' = connecting \ {call[t].id}
    /\ call' = Finish(mark_cleared(call, {call[t].id}, t), t, res)
    /\ ret' = FinishRet(call, t, res)

\* do_connect: profile and subscriptions are read, set_listening_events runs. A
\* failed read or a missing profile returns the error through connect.
do_connect_fetch(t) ==
    LET id == call[t].id
        listening == stored_listening(id)
    IN
    /\ call[t].pc = "c_db"
    /\ Unlocked("connections")
    /\ \E db_read_ok \in BOOLEAN, found \in db_get_connection_by_id(id) :
         IF ~db_read_ok
         THEN /\ connect_unguard(t, "DbError")
              /\ UNCHANGED << connections, touched >>
         ELSE IF ~found
         THEN /\ connect_unguard(t, "Connection not found")
              /\ UNCHANGED << connections, touched >>
         ELSE /\ connections' = set_listening_events(connections, id, listening)
              /\ touched' = [touched EXCEPT ![id] = TRUE]
              /\ call' = [call EXCEPT ![t].pc = "c_teardown"]
              /\ ret' = NoRet
              /\ UNCHANGED connecting
    /\ UNCHANGED << active_connection_id, connected_once, held, handles, cb,
                    db_write_ok, history, published, sent, auto_send_spawned,
                    ncalls, ncbs, removed_since, attempted >>
    /\ UNCHANGED aux

\* do_connect: set_client(connection_id, None); an old client is disconnected
\* after the lock is released.
do_connect_teardown(t) ==
    LET id == call[t].id
        old == client_of(connections, id)
    IN
    /\ call[t].pc = "c_teardown"
    /\ Unlocked("connections")
    /\ connections' = set_client(connections, id, NoClient)
    /\ touched' = [touched EXCEPT ![id] = TRUE]
    /\ IF old # NoClient
       THEN /\ call' = [call EXCEPT ![t].pc = "c_old_disc", ![t].old = old]
            /\ held' = [held EXCEPT ![t] = set_client_locks_at_disconnect]
       ELSE /\ call' = [call EXCEPT ![t].pc = "c_status"]
            /\ UNCHANGED held
    /\ ret' = NoRet
    /\ UNCHANGED << active_connection_id, connecting, connected_once, handles, cb,
                    db_write_ok, history, published, sent, auto_send_spawned,
                    ncalls, ncbs, removed_since, attempted >>
    /\ UNCHANGED aux

\* set_client: old_client.disconnect() returns (its result is ignored).
set_client_disconnect_return(t) ==
    /\ call[t].pc \in {"c_old_disc", "c_old_disc2"}
    /\ handles' = [handles EXCEPT ![call[t].old].state = "closed"]
    /\ held' = [held EXCEPT ![t] = {}]
    /\ call' = [call EXCEPT ![t].pc = IF call[t].pc = "c_old_disc"
                                       THEN "c_status" ELSE "c_active",
                            ![t].old = NoClient]
    /\ ret' = NoRet
    /\ UNCHANGED << connections, active_connection_id, connecting, connected_once,
                    cb, db_write_ok, history, published, sent, auto_send_spawned,
                    ncalls, ncbs, removed_since, attempted, touched >>
    /\ UNCHANGED aux

\* do_connect: emit_status("connecting"), then builder.connect() is entered.
do_connect_dial(t) ==
    LET id == call[t].id
        h == CHOOSE x \in Handles :
                 /\ handles[x].state = "unused"
                 /\ \A y \in Handles : handles[y].state = "unused" => x <= y
    IN
    /\ call[t].pc = "c_status"
    /\ Unlocked("connections")
    /\ \E x \in Handles : handles[x].state = "unused"
    /\ connections' = set_status(connections, id, "connecting")
    /\ published' = Append(published, StatusNote(id, "connecting"))
    /\ handles' = [handles EXCEPT ![h] = NewHandle(id, "dialing")]
    /\ call' = [call EXCEPT ![t].pc = "c_dialing", ![t].h = h]
    /\ ret' = NoRet
    /\ UNCHANGED << active_connection_id, connecting, connected_once, held, cb,
                    db_write_ok, history, sent, auto_send_spawned, ncalls, ncbs,
                    removed_since, attempted, touched >>
    /\ UNCHANGED aux

\* do_connect, Ok(client): set_client(connection_id, Some(client)).
do_connect_ok(t) ==
    LET id == call[t].id
        old == client_of(connections, id)
    IN
    /\ call[t].pc = "c_dialing"
    /\ handles[call[t].h].state \in {"dialing", "up"}
    /\ Unlocked("connections")
    /\ handles' = [handles EXCEPT ![call[t].h].state = "up"]
    /\ connections' = set_client(connections, id, call[t].h)
    /\ touched' = [touched EXCEPT ![id] = TRUE]
    /\ IF old # NoClient
       THEN /\ call' = [call EXCEPT ![t].pc = "c_old_disc2", ![t].old = old]
            /\ held' = [held EXCEPT ![t] = set_client_locks_at_disconnect]
       ELSE /\ call' = [call EXCEPT ![t].pc = "c_active"]
            /\ UNCHANGED held
    /\ ret' = NoRet
    /\ UNCHANGED << active_connection_id, connecting, connected_once, cb,
                    db_write_ok, history, published, sent, auto_send_spawned,
                    ncalls, ncbs, removed_since, attempted >>
    /\ UNCHANGED aux

\* do_connect, Ok(client): set_active_connection(connection_id); Ok(()).
do_connect_set_active(t) ==
    /\ call[t].pc = "c_active"
    /\ Unlocked("active")
    /\ active_connection_id' = set_active_connection_internal(call[t].id)
    /\ call' = [call EXCEPT ![t].pc = "c_unguard", ![t].res = "Ok"]
    /\ ret' = NoRet
    /\ UNCHANGED << connections, connecting, connected_once, held, handles, cb,
                    db_write_ok, history, published, sent, auto_send_spawned,
                    ncalls, ncbs, removed_since, attempted, touched >>
    /\ UNCHANGED aux

\* do_connect, Err(err): emit_status("error", message).
do_connect_err(t) ==
    LET id == call[t].id IN
    /\ call[t].pc = "c_dialing"
    /\ handles[call[t].h].state = "dialing"
    /\ Unlocked("connections")
    /\ handles' = [handles EXCEPT ![call[t].h].state = "failed"]
    /\ connections' = set_status(connections, id, "error")
    /\ published' = Append(published, StatusNote(id, "error"))
    /\ call' = [call EXCEPT ![t].pc = "c_err_event"]
    /\ ret' = NoRet
    /\ UNCHANGED << active_connection_id, connecting, connected_once, held, cb,
                    db_write_ok, history, sent, auto_send_spawned, ncalls, ncbs,
                    removed_since, attempted, touched >>
    /\ UNCHANGED aux

\* do_connect, Err(err): emit_event("connect_error"), emit_error, Err(message).
do_connect_err_event(t) ==
    LET id == call[t].id
        e == BufferedEvent("connect_error", << "message", "dial failed" >>, "in")
    IN
    /\ call[t].pc = "c_err_event"
    /\ Unlocked("connections")
    /\ connections' = record_event(connections, id, e)
    /\ history' = add_event_history(history, id, e, db_write_ok)
    /\ published' = published \o << EventNote(id, e), ErrorNote(id, "dial failed") >>
    /\ call' = [call EXCEPT ![t].pc = "c_unguard", ![t].res = "TransportError"]
    /\ ret' = NoRet
    /\ UNCHANGED << active_connection_id, connecting, connected_once, held, handles,
                    cb, db_write_ok, sent, auto_send_spawned, ncalls, ncbs,
                    removed_since, attempted, touched >>
    /\ UNCHANGED aux

\* connect: the guard entry is removed and do_connect's result returned.
connect_return(t) ==
    /\ call[t].pc = "c_unguard"
    /\ Unlocked("connecting")
    /\ connect_unguard(t, call[t].res)
    /\ handles' = IF call[t].res = "Ok"
                  THEN [handles EXCEPT ![call[t].h].returned = TRUE]
                  ELSE handles
    /\ UNCHANGED << connections, active_connection_id, connected_once, held, cb,
                    db_write_ok, history, published, sent, auto_send_spawned,
                    ncalls, ncbs, removed_since, attempted, touched >>
    /\ UNCHANGED aux

\* ------------------------------------------- bridge: the connect tool
\* execute_tool "connect": reset_connecting_flag(), then spawn_blocking(connect)
\* awaited under a 10 s timeout.
bridge_connect(t, id) ==
    /\ Free(t)
    /\ CallBudget
    /\ Unlocked("connecting")
    /\ ncalls' = ncalls + 1
    /\ connecting' = reset_connecting_flag(connecting)
    /\ call' = [mark_overtaken(mark_cleared(call, connecting, t), id) EXCEPT ![t] =
                  [IdleCall EXCEPT !.op = "connect", !.id = id, !.pc = "c_guard",
                                   !.tool = "waiting"]]
    /\ ret' = NoRet
    /\ removed_since' = [removed_since EXCEPT ![id] = FALSE]
    /\ UNCHANGED << connections, active_connection_id, connected_once, held, handles,
                    cb, db_write_ok, history, published, sent, auto_send_spawned,
                    ncbs, attempted, touched >>
    /\ UNCHANGED aux

\* The blocking task runs SocketManager::connect.
bridge_task_connect(t) ==
    /\ call[t].pc = "c_guard"
    /\ ConnectGuard(t, call[t].id, call[t].tool)
    /\ UNCHANGED << connections, active_connection_id, connected_once, handles, cb,
                    db_write_ok, history, published, sent, auto_send_spawned,
                    ncalls, ncbs, touched >>
    /\ UNCHANGED aux

\* tokio::time::timeout elapses before the task has returned: map_err(..)? makes
\* the tool return "Connection timeout"; the task keeps running.
bridge_timeout(t) ==
    /\ call[t].tool = "waiting"
    /\ call[t].pc \notin {"idle", "b_reset_err"}
    /\ call' = [call EXCEPT ![t].tool = "timeout"]
    /\ ret' = Ret("tool_connect", call[t].id, "Connection timeout")
    /\ UNCHANGED << connections, active_connection_id, connecting, connected_once,
                    held, handles, cb, db_write_ok, history, published, sent,
                    auto_send_spawned, ncalls, ncbs, removed_since, attempted,
                    touched >>
    /\ UNCHANGED aux

\* The task returned Err(e) in time: reset_connecting_flag(); Err(e).
bridge_err_reset(t) ==
    /\ call[t].pc = "b_reset_err"
    /\ Unlocked("connecting")
    /\ connecting' = reset_connecting_flag(connecting)
    /\ call' = [mark_cleared(call, connecting, t) EXCEPT ![t] = IdleCall]
    /\ ret' = Ret("tool_connect", call[t].id, call[t].res)
    /\ UNCHANGED << connections, active_connection_id, connected_once, held, handles,
                    cb, db_write_ok, history, published, sent, auto_send_spawned,
                    ncalls, ncbs, removed_since, attempted, touched >>
    /\ UNCHANGED aux

\* ------------------------------------------------------------- disconnect
\* disconnect_inner: connecting.remove(&connection_id).
disconnect(t, id, reason) ==
    /\ Free(t)
    /\ CallBudget
    /\ Unlocked("connecting")
    /\ ncalls' = ncalls + 1
    /\ connecting' = connecting \ {id}
    /\ call' = [mark_cleared(call, {id}, t) EXCEPT ![t] =
                  [IdleCall EXCEPT !.op = "disconnect", !.id = id,
                                   !.pc = "d_remove", !.reason = reason]]
    /\ ret' = NoRet
    /\ handles' = forget_cfired(handles, id)
    /\ UNCHANGED << connections, active_connection_id, connected_once, held,
                    cb, db_write_ok, history, published, sent, auto_send_spawned,
                    ncbs, removed_since, attempted, touched >>
    /\ UNCHANGED aux

\* Variant: the synthetic event carries the close callback's fixed reason.
disconnect_event_server(reason) ==
    BufferedEvent("disconnect", << "reason", "server" >>, "in")

\* disconnect_inner: the synthetic inbound event, payload {"reason": reason}.
disconnect_event(reason) ==
    BufferedEvent("disconnect", << "reason", reason >>, "in")

\* disconnect_inner: guard.remove(&connection_id).and_then(|c| c.client.take()).
disconnect_remove(t) ==
    LET id == call[t].id IN
    /\ call[t].pc = "d_remove"
    /\ Unlocked("connections")
    /\ connections' = map_remove(connections, id)
    /\ call' = [call EXCEPT ![t].pc = "d_publish",
                            ![t].h = client_of(connections, id),
                            ![t].had = id \in DOMAIN connections]
    /\ ret' = NoRet
    /\ handles' = forget_cfired(handles, id)
    /\ attempted' = [attempted EXCEPT ![id] = FALSE]
    /\ touched' = [touched EXCEPT ![id] = FALSE]
    /\ UNCHANGED << active_connection_id, connecting, connected_once, held, cb,
                    db_write_ok, history, published, sent, auto_send_spawned,
                    ncalls, ncbs, removed_since >>
    /\ UNCHANGED aux

\* disconnect_inner: the status is published; with a client, the synthetic
\* disconnect event is persisted and published and client.disconnect() entered.
disconnect_publish(t) ==
    LET id == call[t].id
        e == disconnect_event(call[t].reason)
    IN
    /\ call[t].pc = "d_publish"
    /\ IF call[t].h # NoClient
       THEN /\ history' = add_event_history(history, id, e, db_write_ok)
            /\ published' = published \o
                 << StatusNote(id, "disconnected"), EventNote(id, e) >>
            /\ call' = [call EXCEPT ![t].pc = "d_transport"]
            /\ held' = [held EXCEPT ![t] = disconnect_inner_locks_at_disconnect]
            /\ ret' = NoRet
            /\ UNCHANGED removed_since
       ELSE /\ published' = Append(published, StatusNote(id, "disconnected"))
            /\ call' = [call EXCEPT ![t] = IdleCall]
            /\ ret' = Ret("disconnect", id, "Ok")
            /\ removed_since' = [removed_since EXCEPT ![id] = @ \/ ~call[t].overtaken]
            /\ UNCHANGED << history, held >>
    /\ handles' = forget_cfired(handles, id)
    /\ UNCHANGED << connections, active_connection_id, connecting, connected_once,
                    cb, db_write_ok, sent, auto_send_spawned, ncalls, ncbs,
                    attempted, touched >>
    /\ UNCHANGED aux

\* disconnect_inner: client.disconnect() returns Ok or an error.
disconnect_return(t) ==
    /\ call[t].pc = "d_transport"
    /\ \E ok \in BOOLEAN :
         ret' = Ret("disconnect", call[t].id, IF ok THEN "Ok" ELSE "TransportError")
    /\ call' = [call EXCEPT ![t] = IdleCall]
    /\ handles' = [forget_cfired(handles, call[t].id) EXCEPT
                     ![call[t].h].state = "closed"]
    /\ held' = [held EXCEPT ![t] = {}]
    /\ removed_since' = [removed_since EXCEPT ![call[t].id] = @ \/ ~call[t].overtaken]
    /\ UNCHANGED << connections, active_connection_id, connecting, connected_once,
                    cb, db_write_ok, history, published, sent, auto_send_spawned,
                    ncalls, ncbs, attempted, touched >>
    /\ UNCHANGED aux

\* ------------------------------------------------------------------- emit
\* emit_message: the client is cloned out of the session; None is "Not connected".
emit_message(t, id, event_name, payload) ==
    LET client == client_of(connections, id) IN
    /\ Free(t)
    /\ CallBudget
    /\ Unlocked("connections")
    /\ ncalls' = ncalls + 1
    /\ IF client = NoClient
       THEN /\ ret' = Ret("emit", id, "Not connected")
            /\ UNCHANGED << call, held >>
       ELSE /\ call' = [call EXCEPT ![t] =
                  [IdleCall EXCEPT !.op = "emit", !.id = id, !.pc = "e_transport",
                                   !.ev = event_name, !.payload = payload,
                                   !.h = client]]
            /\ held' = [held EXCEPT ![t] = emit_message_locks_at_emit]
            /\ ret' = NoRet
    /\ UNCHANGED << connections, active_connection_id, connecting, connected_once,
                    handles, cb, db_write_ok, history, published, sent,
                    auto_send_spawned, ncbs, removed_since, attempted, touched >>
    /\ UNCHANGED aux

\* Variant: a failed history write is returned to the caller of emit.
emit_message_result_propagating(persisted) ==
    IF persisted THEN "Ok" ELSE "DbError"

\* emit_message after client.emit() succeeded: record_event only logs a failed
\* history write, and Ok(()) is returned either way.
emit_message_result(persisted) == "Ok"

\* emit_message: client.emit() returns; on Ok emit_outgoing_event records the
\* event (buffer, then history) and publishes it.
emit_message_return(t) ==
    LET id == call[t].id
        e == BufferedEvent(call[t].ev, call[t].payload, "out")
    IN
    /\ call[t].pc = "e_transport"
    /\ Unlocked("connections")
    /\ held' = [held EXCEPT ![t] = {}]
    /\ call' = [call EXCEPT ![t] = IdleCall]
    /\ \/ /\ handles[call[t].h].state = "up"
          /\ sent' = Append(sent, << call[t].h, call[t].ev, call[t].payload >>)
          /\ connections' = record_event(connections, id, e)
          /\ history' = add_event_history(history, id, e, db_write_ok)
          /\ published' = Append(published, EventNote(id, e))
          /\ ret' = Ret("emit", id, emit_message_result(db_write_ok))
       \/ /\ ret' = Ret("emit", id, "TransportError")
          /\ UNCHANGED << connections, history, published, sent >>
    /\ UNCHANGED << active_connection_id, connecting, connected_once, handles, cb,
                    db_write_ok, auto_send_spawned, ncalls, ncbs, removed_since,
                    attempted, touched >>
    /\ UNCHANGED aux

\* ------------------------------------------------- transport callbacks
CallbackKinds == {"connect", "close", "error", "any"}

\* The transport invokes a callback of handle h; every callback starts with
\* `if !has_connection(connection_id) { return; }`.
callback_fire(h, kind, name) ==
    LET id == handles[h].id
        live == has_connection(id)
        st == IF handles[h].state = "dialing" THEN "up" ELSE handles[h].state
    IN
    /\ CallbackBudget
    /\ cb[h] = NoCallback
    /\ handles[h].state \in
         (IF kind \in {"close", "error"} THEN {"dialing", "up", "closed"}
          ELSE {"dialing", "up"})
    /\ (kind = "any") = (name # "")
    /\ Unlocked("connections")
    /\ ncbs' = ncbs + 1
    /\ handles' = [handles EXCEPT ![h].state = st,
                     ![h].cfired = IF kind \in {"close", "error"} THEN FALSE
                                   ELSE IF kind = "connect" /\ ~live THEN TRUE
                                   ELSE @]
    /\ IF live
       THEN /\ cb' = [cb EXCEPT ![h] = [NoCallback EXCEPT !.kind = kind, !.name = name]]
            /\ ret' = NoRet
       ELSE /\ cb' = cb
            /\ ret' = Ret("on_" \o kind, id, "stale")
    /\ UNCHANGED << connections, active_connection_id, connecting, connected_once,
                    held, call, db_write_ok, history, published, sent,
                    auto_send_spawned, ncalls, removed_since, attempted, touched >>
    /\ UNCHANGED aux

\* Event::Connect callback after the check: emit_status("connected"), emit_event
\* ("connect"), then has_connected_before is read.
on_connect(h) ==
    LET id == handles[h].id
        e == BufferedEvent("connect", << "connectionId", id >>, "in")
    IN
    /\ cb[h].kind = "connect"
    /\ Unlocked("connections")
    /\ connections' = record_event(set_status(connections, id, "connected"), id, e)
    /\ history' = add_event_history(history, id, e, db_write_ok)
    /\ published' = published \o << StatusNote(id, "connected"), EventNote(id, e) >>
    /\ cb' = [cb EXCEPT ![h].kind = "connect_mark",
                        ![h].before = has_connected_before(connected_once, id)]
    /\ ret' = NoRet
    /\ UNCHANGED << active_connection_id, connecting, connected_once, held, call,
                    handles, db_write_ok, sent, auto_send_spawned, ncalls, ncbs,
                    removed_since, attempted, touched >>
    /\ UNCHANGED aux

\* Event::Connect callback, the rest: the flag is selected, mark_connected runs and
\* the auto-send thread is spawned when the flag is set.
on_connect_mark(h) ==
    LET id == handles[h].id
        was_connected_before == cb[h].before
        should_auto_send == IF was_connected_before THEN db_auto_reconnect(id)
                            ELSE db_auto_connect(id)
    IN
    /\ cb[h].kind = "connect_mark"
    /\ Unlocked("connected_once")
    /\ connected_once' = mark_connected(connected_once, id)
    /\ auto_send_spawned' = IF should_auto_send
                            THEN [auto_send_spawned EXCEPT ![id] = @ + 1]
                            ELSE auto_send_spawned
    /\ handles' = [handles EXCEPT ![h].cfired = TRUE]
    /\ cb' = [cb EXCEPT ![h] = NoCallback]
    /\ ret' = Ret("on_connect", id, "handled")
    /\ UNCHANGED << connections, active_connection_id, connecting, held, call,
                    db_write_ok, history, published, sent, ncalls, ncbs,
                    removed_since, attempted, touched >>
    /\ UNCHANGED aux

\* Event::Close callback after the check.
on_close(h) ==
    LET id == handles[h].id
        e == BufferedEvent("disconnect", << "reason", "server" >>, "in")
    IN
    /\ cb[h].kind = "close"
    /\ Unlocked("connections")
    /\ connections' = record_event(set_status(connections, id, "disconnected"), id, e)
    /\ history' = add_event_history(history, id, e, db_write_ok)
    /\ published' = published \o << StatusNote(id, "disconnected"), EventNote(id, e) >>
    /\ cb' = [cb EXCEPT ![h] = NoCallback]
    /\ ret' = Ret("on_close", id, "handled")
    /\ UNCHANGED << active_connection_id, connecting, connected_once, held, call,
                    handles, db_write_ok, sent, auto_send_spawned, ncalls, ncbs,
                    removed_since, attempted, touched >>
    /\ UNCHANGED aux

\* Event::Error callback after the check.
on_error(h) ==
    LET id == handles[h].id
        e == BufferedEvent("connect_error", << "message", "transport error" >>, "in")
    IN
    /\ cb[h].kind = "error"
    /\ Unlocked("connections")
    /\ connections' = record_event(set_status(connections, id, "error"), id, e)
    /\ history' = add_event_history(history, id, e, db_write_ok)
    /\ published' = published \o << StatusNote(id, "error"), EventNote(id, e),
                                    ErrorNote(id, "transport error") >>
    /\ cb' = [cb EXCEPT ![h] = NoCallback]
    /\ ret' = Ret("on_error", id, "handled")
    /\ UNCHANGED << active_connection_id, connecting, connected_once, held, call,
                    handles, db_write_ok, sent, auto_send_spawned, ncalls, ncbs,
                    removed_since, attempted, touched >>
    /\ UNCHANGED aux

\* on_any callback after the session check: should_forward_event is consulted;
\* an event whose name is not listened to is dropped.
on_any(h) ==
    LET id == handles[h].id IN
    /\ cb[h].kind = "any"
    /\ Unlocked("connections")
    /\ IF should_forward_event(id, cb[h].name)
       THEN /\ cb' = [cb EXCEPT ![h].kind = "any_emit"]
            /\ ret' = NoRet
       ELSE /\ cb' = [cb EXCEPT ![h] = NoCallback]
            /\ ret' = Ret("on_any", id, "filtered")
    /\ UNCHANGED << connections, active_connection_id, connecting, connected_once,
                    held, call, handles, db_write_ok, history, published, sent,
                    auto_send_spawned, ncalls, ncbs, removed_since, attempted,
                    touched >>
    /\ UNCHANGED aux

\* on_any callback, the forwarded event: emit_event records it (buffer, then
\* history) and publishes it.
on_any_emit(h) ==
    LET id == handles[h].id
        e == BufferedEvent(cb[h].name, "data", "in")
    IN
    /\ cb[h].kind = "any_emit"
    /\ Unlocked("connections")
    /\ connections' = record_event(connections, id, e)
    /\ history' = add_event_history(history, id, e, db_write_ok)
    /\ published' = Append(published, EventNote(id, e))
    /\ ret' = Ret("on_any", id, "handled")
    /\ cb' = [cb EXCEPT ![h] = NoCallback]
    /\ UNCHANGED << active_connection_id, connecting, connected_once, held, call,
                    handles, db_write_ok, sent, auto_send_spawned, ncalls, ncbs,
                    removed_since, attempted, touched >>
    /\ UNCHANGED aux

\* ------------------------------------------------ listeners, active id
add_listener(id, event_name) ==
    LET trimmed == trim(event_name) IN
    /\ CallBudget
    /\ Unlocked("connections")
    /\ ncalls' = ncalls + 1
    /\ removed_since' = [removed_since EXCEPT ![id] = FALSE]
    /\ IF trimmed = ""
       THEN /\ ret' = RetArg("add_listener", id, "Event name cannot be empty", event_name)
            /\ UNCHANGED << connections, touched >>
       ELSE /\ connections' = [entry_or_insert(connections, id) EXCEPT
                                 ![id].listening_events = @ \cup {trimmed}]
            /\ touched' = [touched EXCEPT ![id] = TRUE]
            /\ ret' = RetArg("add_listener", id, "Ok", event_name)
    /\ call' = mark_overtaken(call, id)
    /\ UNCHANGED << active_connection_id, connecting, connected_once, held,
                    handles, cb, db_write_ok, history, published, sent,
                    auto_send_spawned, ncbs, attempted >>
    /\ UNCHANGED aux

\* remove_listener(id, name) ran: the connect(id) calls under way no longer count
\* the name among those listened to when they began.
forget_listened(c, id, name) ==
    [t \in Threads |->
        IF c[t].op = "connect" /\ c[t].id = id
        THEN [c[t] EXCEPT !.listened = @ \ {name}]
        ELSE c[t]]

remove_listener(id, event_name) ==
    /\ CallBudget
    /\ Unlocked("connections")
    /\ ncalls' = ncalls + 1
    /\ connections' = IF id \in DOMAIN connections
                      THEN [connections EXCEPT ![id].listening_events = @ \ {event_name}]
                      ELSE connections
    /\ call' = forget_listened(call, id, event_name)
    /\ ret' = RetArg("remove_listener", id, "Ok", event_name)
    /\ UNCHANGED << active_connection_id, connecting, connected_once, held,
                    handles, cb, db_write_ok, history, published, sent,
                    auto_send_spawned, ncbs, removed_since, attempted, touched >>
    /\ UNCHANGED aux

set_active_connection(id) ==
    /\ CallBudget
    /\ Unlocked("active")
    /\ ncalls' = ncalls + 1
    /\ active_connection_id' = set_active_connection_internal(id)
    /\ ret' = Ret("set_active", id, "Ok")
    /\ UNCHANGED << connections, connecting, connected_once, held, call, handles, cb,
                    db_write_ok, history, published, sent, auto_send_spawned, ncbs,
                    removed_since, attempted, touched >>
    /\ UNCHANGED aux

clear_active_connection ==
    /\ CallBudget
    /\ Unlocked("active")
    /\ ncalls' = ncalls + 1
    /\ active_connection_id' = set_active_connection_internal(NoActive)
    /\ ret' = Ret("clear_active", 0, "Ok")
    /\ UNCHANGED << connections, connecting, connected_once, held, call, handles, cb,
                    db_write_ok, history, published, sent, auto_send_spawned, ncbs,
                    removed_since, attempted, touched >>
    /\ UNCHANGED aux

\* ------------------------------------------------------------------- Next
Next ==
    \/ \E t \in Threads, id \in Ids : connect(t, id)
    \/ \E t \in Threads : do_connect_fetch(t)
    \/ \E t \in Threads : do_connect_teardown(t)
    \/ \E t \in Threads : set_client_disconnect_return(t)
    \/ \E t \in Threads : do_connect_dial(t)
    \/ \E t \in Threads : do_connect_ok(t)
    \/ \E t \in Threads : do_connect_set_active(t)
    \/ \E t \in Threads : do_connect_err(t)
    \/ \E t \in Threads : do_connect_err_event(t)
    \/ \E t \in Threads : connect_return(t)
    \/ \E t \in Threads, id \in Ids : bridge_connect(t, id)
    \/ \E t \in Threads : bridge_task_connect(t)
    \/ \E t \in Threads : bridge_timeout(t)
    \/ \E t \in Threads : bridge_err_reset(t)
    \/ \E t \in Threads, id \in Ids, r \in Reasons : disconnect(t, id, r)
    \/ \E t \in Threads : disconnect_remove(t)
    \/ \E t \in Threads : disconnect_publish(t)
    \/ \E t \in Threads : disconnect_return(t)
    \/ \E t \in Threads, id \in Ids, n \in EmitNames, p \in Payloads :
          emit_message(t, id, n, p)
    \/ \E t \in Threads : emit_message_return(t)
    \/ \E h \in Handles, k \in CallbackKinds \ {"any"} : callback_fire(h, k, "")
    \/ \E h \in Handles, n \in InboundNames : callback_fire(h, "any", n)
    \/ \E h \in Handles : on_connect(h)
    \/ \E h \in Handles : on_connect_mark(h)
    \/ \E h \in Handles : on_close(h)
    \/ \E h \in Handles : on_error(h)
    \/ \E h \in Handles : on_any(h)
    \/ \E h \in Handles : on_any_emit(h)
    \/ \E id \in Ids, n \in ListenerInputs : add_listener(id, n)
    \/ \E id \in Ids, n \in InboundNames : remove_listener(id, n)
    \/ \E id \in Ids : set_active_connection(id)
    \/ clear_active_connection

Spec == Init /\ [][Next]_vars

\* =================================================================== claims
\* Thread t is past the connecting guard: inside do_connect, or back in connect
\* before its own guard removal.
InBody(t) ==
    /\ call[t].op = "connect"
    /\ call[t].pc \in {"c_db", "c_teardown", "c_old_disc", "c_status", "c_dialing",
                       "c_old_disc2", "c_active", "c_err_event", "c_unguard"}

\* Thread t is inside a transport call: Client::disconnect, builder.connect or
\* Client::emit.
InTransport(t) ==
    call[t].pc \in {"c_old_disc", "c_old_disc2", "c_dialing", "d_transport",
                    "e_transport"}

\* A connect(id) call, direct or from the bridge's task, is executing.
ConnectInFlight(id) ==
    \E t \in Threads : call[t].op = "connect" /\ call[t].id = id /\ call[t].pc # "idle"

\* C1 (as amended): at most one connect(id) attempt whose guard entry is still in
\* place is past the connecting guard, and no connect(id) passes the guard while id
\* is in it (the call fails with AlreadyConnecting instead); an attempt whose entry
\* was dropped by disconnect(id), by the bridge's reset or by the return of an
\* overlapping attempt does not keep a later connect(id) out.
C1_OneGuardedAttempt ==
    [][ /\ \A t \in Threads :
             (~InBody(t) /\ InBody(t)') =>
                 /\ call'[t].id \notin connecting
                 /\ \A u \in Threads \ {t} :
                      (InBody(u) /\ call[u].id = call'[t].id) => call[u].cleared
        /\ \A id \in Ids :
             Cardinality({ t \in Threads :
                 InBody(t)' /\ call'[t].id = id /\ ~call'[t].cleared }) <= 1
      ]_vars

\* C1 witness: a connect(id) was just rejected while another attempt for id is in
\* the connect body.
C1_RejectedWhileInFlight ==
    /\ ret.op = "connect"
    /\ ret.res = "AlreadyConnecting"
    /\ \E t \in Threads : InBody(t) /\ call[t].id = ret.id /\ ~call[t].cleared

\* C1 as stated: at most one connect(id) attempt is past the guard at any time.
C1_AtMostOneAttempt ==
    \A id \in Ids : Cardinality({ t \in Threads : InBody(t) /\ call[t].id = id }) <= 1

\* C2 as stated: when the connect tool's timeout expires, id is not in the
\* connecting guard when the tool returns its timeout error.
C2_TimeoutResetsGuard ==
    [][ \A t \in Threads :
          (call[t].tool = "waiting" /\ call'[t].tool = "timeout") =>
              call[t].id \notin connecting'
      ]_vars

\* C2 witness: the tool has returned "Connection timeout" and id is still guarded.
C2_TimedOutStillGuarded ==
    /\ ret.op = "tool_connect"
    /\ ret.res = "Connection timeout"
    /\ ret.id \in connecting

\* C3 as stated: once disconnect(id) has returned, with no connect(id) in flight
\* and no connect(id) or add_listener(id) begun since, status(id) is disconnected
\* and id is absent from all_statuses().
C3_DisconnectedAfterDisconnect ==
    \A id \in Ids :
        (removed_since[id] /\ ~ConnectInFlight(id)) =>
            /\ get_status_for_connection(id) = "disconnected"
            /\ id \notin DOMAIN get_all_statuses

\* C3 witness: disconnect(id) has returned, nothing for id is running or was
\* started since, and id has a session again.
C3_SessionBackAfterDisconnect ==
    \E id \in Ids :
        /\ removed_since[id]
        /\ ~ConnectInFlight(id)
        /\ id \in DOMAIN get_all_statuses

\* C4 as stated: when connect(id) returned Ok, the connect callback of the handle
\* it installed has fired, and no close or error callback of that handle and no
\* disconnect(id) happened since, status(id) is connected.
C4_ConnectedAfterCallback ==
    \A h \in Handles :
        ( /\ handles[h].returned
          /\ handles[h].cfired
          /\ client_of(connections, handles[h].id) = h ) =>
            get_status_for_connection(handles[h].id) = "connected"

\* C4 witness: such a handle is installed while status(id) is not connected.
C4_InstalledButNotConnected ==
    \E h \in Handles :
        /\ handles[h].returned
        /\ handles[h].cfired
        /\ client_of(connections, handles[h].id) = h
        /\ get_status_for_connection(handles[h].id) # "connected"

\* C5: an id without a session has status disconnected, and disconnect(id) on it
\* returns Ok, leaves the session map, the active id and the connected-once set
\* as they are and makes no transport call.
C5_DisconnectAbsentIsNoOp ==
    [][ /\ \A id \in Ids :
             id \notin DOMAIN connections => get_status_for_connection(id) = "disconnected"
        /\ \A t \in Threads :
             ( /\ call[t].pc = "d_remove"
               /\ call'[t].pc # "d_remove"
               /\ call[t].id \notin DOMAIN connections ) =>
                 /\ call'[t].pc = "d_publish"
                 /\ call'[t].h = NoClient
                 /\ UNCHANGED << connections, active_connection_id, connected_once, sent >>
        /\ \A t \in Threads :
             ( /\ call[t].pc = "d_publish"
               /\ call'[t].pc # "d_publish"
               /\ ~call[t].had ) =>
                 /\ call'[t].pc = "idle"
                 /\ ret' = Ret("disconnect", call[t].id, "Ok")
                 /\ \A h \in Handles : handles'[h].state = handles[h].state
                 /\ UNCHANGED << connections, active_connection_id, connected_once, sent >>
      ]_vars

\* C5 witness: disconnect(id) returned before, and a second disconnect(id) has
\* just run its removal on the absent session.
C5_SecondDisconnect ==
    \E t \in Threads :
        /\ call[t].op = "disconnect"
        /\ call[t].pc = "d_publish"
        /\ ~call[t].had
        /\ removed_since[call[t].id]

\* C6: emit on an id with no session, or with a session that has no client,
\* returns "Not connected" at once: no transport emit, no buffer entry, no history
\* row, nothing published.
C6_EmitWithoutClient ==
    [][ \A id \in Ids :
          ( /\ ncalls' = ncalls + 1
            /\ id \notin DOMAIN connections \/ connections[id].client = NoClient
            /\ \/ ret'.op = "emit" /\ ret'.id = id
               \/ \E t \in Threads :
                     call[t].pc = "idle" /\ call'[t].op = "emit" /\ call'[t].id = id ) =>
              /\ ret' = Ret("emit", id, "Not connected")
              /\ UNCHANGED << connections, history, published, sent, call, handles >>
      ]_vars

\* C6 witness: emit just failed with "Not connected" on a session without client.
C6_SessionWithoutClient ==
    /\ ret.op = "emit"
    /\ ret.res = "Not connected"
    /\ ret.id \in DOMAIN connections
    /\ connections[ret.id].client = NoClient

\* The event emit_outgoing_event builds for the emit call thread t is running.
OutEvent(t) == BufferedEvent(call[t].ev, call[t].payload, "out")

\* Thread t's emit call returns Ok in this step.
EmitReturnsOk(t) ==
    /\ call[t].pc = "e_transport"
    /\ call'[t].pc = "idle"
    /\ ret'.op = "emit"
    /\ ret'.res = "Ok"

\* C7 (as amended): an emit that returns Ok has published the out event exactly
\* once; it has appended it exactly once to id's buffer when id still has a session
\* at that moment (a disconnect(id) since the client was read leaves no buffer to
\* append to), and has added one history row when the persistence write succeeded.
C7_SuccessfulEmitRecorded ==
    [][ \A t \in Threads :
          EmitReturnsOk(t) =>
            /\ published' = Append(published, EventNote(call[t].id, OutEvent(t)))
            /\ history' = IF db_write_ok
                          THEN Append(history, [id |-> call[t].id, event |-> OutEvent(t)])
                          ELSE history
            /\ connections' =
                 IF call[t].id \in DOMAIN connections
                 THEN [connections EXCEPT ![call[t].id].event_buffer =
                                             Append(@, OutEvent(t))]
                 ELSE connections
            /\ sent' = Append(sent, << call[t].h, call[t].ev, call[t].payload >>)
      ]_vars

\* C7 witness: an emit returned Ok although disconnect(id) had removed the session
\* in between, so the event is published but in no buffer.
C7_EmitOkAfterRemoval ==
    /\ ret.op = "emit"
    /\ ret.res = "Ok"
    /\ ret.id \notin DOMAIN connections
    /\ Len(published) > 0
    /\ published[Len(published)].topic = "socket:event"
    /\ published[Len(published)].event.direction = "out"

\* C7 as stated: every emit that returns Ok has appended the event to id's buffer,
\* persisted it and published it.
C7_EmitAlwaysRecorded ==
    [][ \A t \in Threads :
          EmitReturnsOk(t) =>
            /\ published' = Append(published, EventNote(call[t].id, OutEvent(t)))
            /\ history' = Append(history, [id |-> call[t].id, event |-> OutEvent(t)])
            /\ call[t].id \in DOMAIN connections
            /\ call[t].id \in DOMAIN connections'
            /\ connections'[call[t].id].event_buffer =
                 Append(connections[call[t].id].event_buffer, OutEvent(t))
      ]_vars

\* C8 (as amended): id is a key of the session map exactly when, since the last
\* removal by disconnect(id), a connect(id) that found its profile has run
\* set_listening_events or set_client, or add_listener(id) got a non-blank name.
C8_KeyIffEntryMade ==
    \A id \in Ids : (id \in DOMAIN connections) <=> touched[id]

\* C8 witness: id is a key although no connect(id) was attempted.
C8_KeyWithoutConnect ==
    \E id \in Ids : id \in DOMAIN connections /\ ~attempted[id] /\ touched[id]

\* C8 as stated: id is a key exactly when a connect(id) was attempted and no
\* disconnect(id) removed the entry since.
C8_KeyIffAttempted ==
    \A id \in Ids : (id \in DOMAIN connections) <=> attempted[id]

C10_StaleCallbackIgnored ==
    [][ \A h \in Handles :
          ( /\ ncbs' = ncbs + 1
            /\ cb[h] = NoCallback
            /\ handles[h].id \notin DOMAIN connections
            /\ \/ cb'[h] # NoCallback
               \/ ret'.res = "stale" /\ ret'.id = handles[h].id ) =>
              /\ cb' = cb
              /\ ret'.res = "stale"
              /\ UNCHANGED << connections, connected_once, history, published,
                              auto_send_spawned, active_connection_id, sent >>
      ]_vars

\* C10 witness: a callback just returned as stale for an id whose disconnect had
\* returned.
C10_StaleAfterDisconnect ==
    /\ ret.res = "stale"
    /\ removed_since[ret.id]
    /\ ret.id \notin DOMAIN connections

\* The flag a connect callback for id selects when it is handled in a state where
\* connected-once is `once`.
selected_flag(once, id) ==
    IF has_connected_before(once, id) THEN db_auto_reconnect(id) ELSE db_auto_connect(id)

\* C11: a connect callback for id schedules an auto-send batch exactly when the
\* flag selected for it is set: the on-connect flag when no connect callback for id
\* was handled before, the on-reconnect flag otherwise; and no id ever leaves
\* connected-once.
C11_FirstConnectThenReconnect ==
    [][ /\ connected_once \subseteq connected_once'
        /\ \A h \in Handles :
             (cb[h].kind = "connect_mark" /\ cb'[h] = NoCallback) =>
               LET id == handles[h].id IN
               /\ id \in connected_once'
               /\ auto_send_spawned'[id] = auto_send_spawned[id] +
                    (IF selected_flag(connected_once, id) THEN 1 ELSE 0)
      ]_vars

\* C11 witness: two batches were scheduled for an id whose on-reconnect flag is
\* unset, so two connect callbacks both selected the on-connect flag.
C11_TwoOnConnectBatches ==
    \E id \in Ids : auto_send_spawned[id] >= 2 /\ ~db_auto_reconnect(id)

\* C15: in the step in which a connect(id) that passed the guard returns, whatever
\* its result, id is not in the connecting guard; an id is in the guard only while
\* an attempt for it is in the connect body, so a connect(id) that starts when no
\* attempt for id is running is not rejected by the guard.
C15_GuardReleasedOnReturn ==
    [][ /\ \A t \in Threads :
             (InBody(t) /\ ~InBody(t)') => call[t].id \notin connecting'
        /\ \A id \in connecting' :
             \E t \in Threads : InBody(t)' /\ call'[t].id = id
        /\ ( /\ ncalls' = ncalls + 1
             /\ ret'.op = "connect"
             /\ ret'.res = "AlreadyConnecting" ) =>
               \E u \in Threads : InBody(u) /\ call[u].id = ret'.id
        /\ \A t \in Threads :
             (call[t].pc = "c_guard" /\ call'[t].pc \notin {"c_guard", "c_db"}) =>
               \E u \in Threads : InBody(u) /\ call[u].id = call[t].id
      ]_vars

\* C15 witness: a connect(id) that passed the guard has just returned an error of
\* the connect body, and id is not in the guard.
C15_FailedConnectReleased ==
    /\ ret.op = "connect"
    /\ ret.res \notin {"Ok", "AlreadyConnecting"}
    /\ ret.id \notin connecting
    /\ attempted[ret.id]

\* The buffered events of id (none when id has no session).
BufferOf(conns, id) ==
    IF id \in DOMAIN conns THEN conns[id].event_buffer ELSE << >>

\* C16: a step that changes the buffer of id's session puts exactly one event at
\* the back: the events already buffered keep their order and stay in front of it
\* (the oldest ones leave when the buffer is full); a session starts with an empty
\* buffer. No event is placed before one recorded earlier, none is merged.
C16_BufferInArrivalOrder ==
    [][ \A id \in Ids :
          LET old == BufferOf(connections, id)
              new == BufferOf(connections', id)
              k == Len(old) + 1 - Len(new)
          IN
          /\ (id \notin DOMAIN connections /\ id \in DOMAIN connections') => new = << >>
          /\ (id \in DOMAIN connections /\ id \in DOMAIN connections' /\ new # old) =>
                /\ Len(new) >= 1
                /\ k >= 0
                /\ Len(new) = Min(Len(old) + 1, EventBufferMaxSize)
                /\ \A i \in 1..(Len(new) - 1) : new[i] = old[i + k]
      ]_vars

\* C16 witness: a session's buffer holds an outbound event behind the inbound
\* connect event recorded before it.
C16_TwoEventsInOrder ==
    \E id \in DOMAIN connections :
        LET b == connections[id].event_buffer IN
        /\ Len(b) >= 2
        /\ b[1].event_name = "connect"
        /\ b[Len(b)].direction = "out"

\* The step is a set_active_connection or clear_active_connection call.
ExplicitActiveCall ==
    /\ ncalls' = ncalls + 1
    /\ ret'.op \in {"set_active", "clear_active"}

\* The step is thread t's connect storing the active id after a successful dial.
ConnectMarksActive(t) ==
    /\ call[t].op = "connect"
    /\ call[t].pc = "c_active"
    /\ call'[t].pc # "c_active"

\* C17 (as amended): the active id changes only in a set-active call (to its
\* argument), in a clear-active call (to none) and in a connect(id) whose dial
\* succeeded (to id); a failed connect and every step of disconnect leave it alone.
C17_ActiveChangedBySetClearConnect ==
    [][ /\ active_connection_id' # active_connection_id =>
             \/ ExplicitActiveCall
             \/ \E t \in Threads : ConnectMarksActive(t)
        /\ (ExplicitActiveCall /\ ret'.op = "set_active") =>
             active_connection_id' = ret'.id
        /\ (ExplicitActiveCall /\ ret'.op = "clear_active") =>
             active_connection_id' = NoActive
        /\ \A t \in Threads :
             ConnectMarksActive(t) =>
               /\ active_connection_id' = call[t].id
               /\ call'[t].res = "Ok"
        /\ \A t \in Threads :
             (call'[t].op = "disconnect" /\ call'[t] # call[t]) =>
               active_connection_id' = active_connection_id
        /\ \A t \in Threads :
             (call[t].op = "disconnect" /\ call'[t] # call[t]) =>
               active_connection_id' = active_connection_id
      ]_vars

\* C17 witness: the only call made so far is a connect(id) whose dial succeeded,
\* and id is the active id.
C17_ActiveAfterConnect ==
    /\ ncalls = 1
    /\ \E t \in Threads :
         /\ call[t].op = "connect"
         /\ call[t].pc = "c_unguard"
         /\ call[t].res = "Ok"
         /\ active_connection_id = call[t].id

\* C17 as stated: the active id is changed only by set-active and clear-active
\* calls.
C17_ActiveChangedOnlyExplicitly ==
    [][ active_connection_id' # active_connection_id => ExplicitActiveCall ]_vars

\* ------------------------------------------------- EventBuffer on its own
\* Capacities, pushes and limits the buffer is exercised with.
MaxCapacity == 3
MaxPushes == 5
RingEvents == { BufferedEvent(n, "{}", "in") : n \in InboundNames }

RingInit ==
    /\ SocketManager_new
    /\ rec = Recorder_new
    /\ store = ListenerStore_new
    /\ batch = NoBatch
    /\ bridge = McpAppState_new
    /\ ring \in { EventBuffer_new(c) : c \in 0..MaxCapacity }

ring_push(event) ==
    /\ Len(ring.pushed) < MaxPushes
    /\ ring' = [ring EXCEPT !.events = EventBuffer_push(@, ring.max_size, event),
                            !.pushed = Append(@, event)]
    /\ UNCHANGED << manager, batch, bridge, store, rec >>

ring_list_recent(limit) ==
    /\ ring' = [ring EXCEPT !.limit = limit, !.out = list_recent(ring.events, limit)]
    /\ UNCHANGED << manager, batch, bridge, store, rec >>

RingNext ==
    \/ \E e \in RingEvents : ring_push(e)
    \/ \E l \in 0..(MaxCapacity + 1) : ring_list_recent(l)

SpecBuffer == RingInit /\ [][RingNext]_vars

\* C13: after n pushes into a buffer of capacity C the buffer holds exactly the
\* last min(n, C) pushed events, in the order they were pushed; its size is never
\* over C.
C13_BufferKeepsLastPushed ==
    LET n == Len(ring.pushed)
        size == Len(ring.events)
    IN
    /\ size <= ring.max_size
    /\ size = Min(n, ring.max_size)
    /\ \A i \in 1..size : ring.events[i] = ring.pushed[n - size + i]

\* C13 witness: more events were pushed than the buffer holds, and the first one
\* pushed differs from the oldest one kept.
C13_OldestEvicted ==
    /\ ring.max_size >= 2
    /\ Len(ring.pushed) > ring.max_size
    /\ Len(ring.events) = ring.max_size
    /\ ring.pushed[1] # ring.events[1]
    /\ ring.events[1] # ring.events[Len(ring.events)]

\* C14: list_recent(limit) returns exactly min(limit, size) events, the most
\* recently pushed ones with the newest first, and leaves the buffer as it was; a
\* limit of 0 returns the empty list.
C14_ListRecentNewestFirst ==
    [][ ring'.limit # NoLimit /\ << ring'.limit, ring'.out >> # << ring.limit, ring.out >> =>
          LET n == Len(ring.pushed)
              size == Len(ring.events)
              out == ring'.out
          IN
          /\ Len(out) = Min(ring'.limit, size)
          /\ \A i \in 1..Len(out) : out[i] = ring.pushed[n + 1 - i]
          /\ ring'.limit = 0 => out = << >>
          /\ ring'.events = ring.events
          /\ ring'.pushed = ring.pushed
      ]_vars

\* C14 witness: a list_recent call with a limit under the buffer's size returned,
\* and the newest event differs from the next one.
C14_ListedPartOfBuffer ==
    /\ ring.limit >= 2
    /\ ring.limit < Len(ring.events)
    /\ Len(ring.out) = ring.limit
    /\ ring.out[1] # ring.out[2]
    /\ ring.out[1] = ring.events[Len(ring.events)]

\* ------------------------------------------------------ auto-send batches
\* Variant: the batch takes every status for connected.
always_connected(status) == TRUE

\* do_auto_send: get_status_for_connection(connection_id) != "connected" breaks.
still_connected(status) == status = "connected"

\* The batch moves to the next template, or ends after the last one.
next_message(b) ==
    IF b.i < Len(b.messages)
    THEN [b EXCEPT !.pc = "a_sleep", !.i = b.i + 1, !.h = NoClient]
    ELSE [b EXCEPT !.pc = "done", !.h = NoClient]

\* Variant: a failed emit ends the batch.
abort_batch(b) == [b EXCEPT !.pc = "done", !.h = NoClient]

\* do_auto_send: an Err of emit_message is logged and the loop goes on.
after_failed_emit(b) == next_message(b)

\* The thread spawned by the connect callback runs do_auto_send: the templates are
\* fetched; none configured ends the batch.
do_auto_send(id) ==
    LET messages == db_list_auto_send_messages(id) IN
    /\ batch.pc = "idle"
    /\ auto_send_spawned[id] > 0
    /\ batch' = IF messages = << >>
                THEN [batch EXCEPT !.pc = "done", !.id = id]
                ELSE [batch EXCEPT !.pc = "a_sleep", !.id = id, !.messages = messages,
                                   !.i = 1]
    /\ UNCHANGED << manager, ring, bridge, store, rec >>

\* After the delay the status is read; anything but connected breaks the loop.
do_auto_send_check ==
    LET status == get_status_for_connection(batch.id) IN
    /\ batch.pc = "a_sleep"
    /\ Unlocked("connections")
    /\ batch' = IF still_connected(status)
                THEN [batch EXCEPT !.pc = "a_emit", !.saw = status]
                ELSE [batch EXCEPT !.pc = "done", !.saw = status]
    /\ UNCHANGED << manager, ring, bridge, store, rec >>

\* emit_message takes the session's client under the lock; without one it returns
\* "Not connected", which is logged, and the loop goes on. With one, client.emit
\* is called.
do_auto_send_emit ==
    LET client == client_of(connections, batch.id) IN
    /\ batch.pc = "a_emit"
    /\ Unlocked("connections")
    /\ batch' = IF client = NoClient
                THEN after_failed_emit(batch)
                ELSE [batch EXCEPT !.pc = "a_transport", !.h = client,
                                   !.handed = Append(@, batch.i)]
    /\ UNCHANGED << manager, ring, bridge, store, rec >>

\* client.emit returns: on Ok emit_outgoing_event records and publishes the event
\* and add_emit_log writes its row; an Err is logged. The loop goes on.
do_auto_send_emit_return ==
    LET id == batch.id
        msg == batch.messages[batch.i]
        e == BufferedEvent(msg[1], msg[2], "out")
    IN
    /\ batch.pc = "a_transport"
    /\ Unlocked("connections")
    /\ \/ /\ handles[batch.h].state = "up"
          /\ sent' = Append(sent, << batch.h, msg[1], msg[2] >>)
          /\ connections' = record_event(connections, id, e)
          /\ history' = add_event_history(history, id, e, db_write_ok)
          /\ published' = Append(published, EventNote(id, e))
          /\ batch' = [next_message(batch) EXCEPT !.emit_logs =
                         IF db_write_ok THEN Append(@, << id, msg[1], msg[2] >>) ELSE @]
       \/ /\ batch' = after_failed_emit(batch)
          /\ UNCHANGED << connections, history, published, sent >>
    /\ UNCHANGED << active_connection_id, connecting, connected_once, held, call, ret,
                    handles, cb, db_write_ok, auto_send_spawned, ncalls, ncbs,
                    removed_since, attempted, touched, ring, bridge, store, rec >>

\* The profiles that have auto-send templates are connected and disconnected while
\* their batch runs.
AutoSendIds == { id \in Ids : db_list_auto_send_messages(id) # << >> }

AutoSendNext ==
    \/ \E t \in Threads, id \in AutoSendIds : connect(t, id)
    \/ \E t \in Threads : do_connect_fetch(t)
    \/ \E t \in Threads : do_connect_teardown(t)
    \/ \E t \in Threads : set_client_disconnect_return(t)
    \/ \E t \in Threads : do_connect_dial(t)
    \/ \E t \in Threads : do_connect_ok(t)
    \/ \E t \in Threads : do_connect_set_active(t)
    \/ \E t \in Threads : do_connect_err(t)
    \/ \E t \in Threads : do_connect_err_event(t)
    \/ \E t \in Threads : connect_return(t)
    \/ \E t \in Threads, id \in AutoSendIds, r \in Reasons : disconnect(t, id, r)
    \/ \E t \in Threads : disconnect_remove(t)
    \/ \E t \in Threads : disconnect_publish(t)
    \/ \E t \in Threads : disconnect_return(t)
    \/ \E h \in Handles, k \in CallbackKinds \ {"any"} : callback_fire(h, k, "")
    \/ \E h \in Handles : on_connect(h)
    \/ \E h \in Handles : on_connect_mark(h)
    \/ \E h \in Handles : on_close(h)
    \/ \E h \in Handles : on_error(h)
    \/ \E id \in AutoSendIds : do_auto_send(id)
    \/ do_auto_send_check
    \/ do_auto_send_emit
    \/ do_auto_send_emit_return

SpecAutoSend == Init /\ [][AutoSendNext]_vars

\* The event names of the outbound events in a notification log, in order.
RECURSIVE OutboundNames(_)
OutboundNames(notes) ==
    IF notes = << >> THEN << >>
    ELSE LET n == Head(notes)
             rest == OutboundNames(Tail(notes))
         IN IF n.topic = "socket:event" /\ n.event.direction = "out"
            THEN << n.event.event_name >> \o rest
            ELSE rest

\* The batch calls client.emit for a template in this step.
HandsOver == Len(batch'.handed) > Len(batch.handed)

\* C12 (as amended): a template is handed to the transport only after a status
\* check that read connected, and it is the template the batch is at; a check that
\* reads anything else ends the batch, which then does nothing more. The templates
\* the transport accepted are published as outbound events, one each, in template
\* order.
C12_BatchStopsWhenDropObserved ==
    [][ /\ HandsOver =>
             /\ batch.saw = "connected"
             /\ batch'.handed = Append(batch.handed, batch.i)
             /\ \A k \in 1..Len(batch.handed) : batch.handed[k] < batch.i
        /\ (batch.pc = "a_sleep" /\ batch' # batch) =>
             /\ batch'.saw = get_status_for_connection(batch.id)
             /\ batch'.saw # "connected" =>
                   batch'.pc = "done" /\ batch'.handed = batch.handed
        /\ batch.pc = "done" => batch' = batch /\ sent' = sent
        /\ Len(sent') = Len(sent) + 1 =>
             /\ batch.pc = "a_transport"
             /\ sent'[Len(sent')][2] = batch.messages[batch.i][1]
             /\ batch.i = batch.handed[Len(batch.handed)]
        /\ OutboundNames(published') = [ k \in 1..Len(sent') |-> sent'[k][2] ]
      ]_vars

\* C12 witness: the batch had templates accepted by the transport, then a check
\* read a status other than connected and the batch ended with templates left.
C12_BatchCutShort ==
    /\ batch.pc = "done"
    /\ batch.saw \notin {"", "connected"}
    /\ Len(batch.handed) >= 1
    /\ Len(sent) >= 1
    /\ batch.i <= Len(batch.messages)
    /\ Len(OutboundNames(published)) = Len(sent)

\* C12 as stated: no template is handed to the transport while the status of the
\* batch's id is anything but connected.
C12_NoHandOverAfterDrop ==
    [][ HandsOver => get_status_for_connection(batch.id) = "connected" ]_vars

\* ------------------------------------------------ bridge: POST and push
MaxRequests == 2
MethodNotFound == -32601
InvalidParams == -32602

RequestIds == {"none", "7"}

BridgeRequests ==
    { JsonRpcRequest(id, m, JAbsent, JAbsent, JAbsent) :
        id \in RequestIds,
        m \in {"initialize", "notifications/initialized", "tools/list", "ping",
               "unknown/method"} }
    \cup
    { JsonRpcRequest(id, "tools/call", n, JAbsent, JAbsent) :
        id \in RequestIds,
        n \in {JAbsent, JNumber, JString("get_connection_status"),
               JString("send_message"), JString("bogus")} }
    \cup
    { JsonRpcRequest(id, "tools/call", JString("send_message"), e, pl) :
        id \in RequestIds, e \in {JNumber, JString("ping")},
        pl \in {JAbsent, JString("{}")} }

\* request.id.clone().unwrap_or(Value::Null)
id_or_null(request) == IF request.id = "none" THEN "null" ELSE request.id

\* Option<i64> as JSON text.
id_text(id) == IF id = NoActive THEN "null" ELSE IF id = 1 THEN "1" ELSE "2"

\* SocketManager::get_current_connection_id
get_current_connection_id == active_connection_id

\* SocketManager::get_status
get_status ==
    IF get_current_connection_id = NoActive THEN "disconnected"
    ELSE get_status_for_connection(get_current_connection_id)

\* The connection the send_message tool emits on: the active one.
send_message_target == get_current_connection_id

\* emit_message_async on connection_id: no client is "Not connected"; otherwise
\* client.emit runs on a blocking task and on Ok emit_outgoing_event records it.
emit_message_async(connection_id) ==
    LET client == IF connection_id = NoActive THEN NoClient
                  ELSE client_of(connections, connection_id)
    IN
    IF client = NoClient THEN { ToolErr("Not connected") }
    ELSE { ToolErr("TransportError") } \cup
         (IF handles[client].state = "up"
          THEN { ToolOk("{ok:true,message:Message sent}", "emit") }
          ELSE {})

\* execute_tool: what the tool named `name` can return for the request's
\* arguments in the manager's current state.
execute_tool(name, request) ==
    CASE name = "get_connection_status" ->
           { ToolOk("{status:" \o get_status \o ",current_connection_id:"
                    \o id_text(get_current_connection_id) \o "}", "none") }
      [] name = "send_message" ->
           IF ~as_str(request.event_name).some
           THEN { ToolErr("event_name is required") }
           ELSE IF ~as_str(request.payload).some
           THEN { ToolErr("payload is required") }
           ELSE emit_message_async(send_message_target)
      [] OTHER -> { ToolErr("Unknown tool: " \o name) }

\* Variant: a tool failure becomes a JSON-RPC error.
tools_call_failure_as_error(request, outcome) ==
    IF as_str(request.name).some /\ outcome.ok
    THEN JsonRpcResponse_success(id_or_null(request), ToolResult(outcome.text, FALSE))
    ELSE JsonRpcResponse_error(id_or_null(request), InvalidParams, outcome.text)

\* process_request, "tools/call".
tools_call(request, outcome) ==
    IF as_str(request.name).some
    THEN IF outcome.ok
         THEN JsonRpcResponse_success(id_or_null(request), ToolResult(outcome.text, FALSE))
         ELSE JsonRpcResponse_success(id_or_null(request), ToolResult(outcome.text, TRUE))
    ELSE JsonRpcResponse_error(id_or_null(request), InvalidParams, "Missing tool name")

\* Variant: a method that is not known is acknowledged whether or not it has an id.
unknown_method_acknowledged(request) ==
    JsonRpcResponse_success(id_or_null(request), PlainResult("{}"))

\* process_request, any other method.
unknown_method(request) ==
    IF request.id = "none"
    THEN JsonRpcResponse_success("null", PlainResult("{}"))
    ELSE JsonRpcResponse_error(id_or_null(request), MethodNotFound,
                               "Method not found: " \o request.method)

process_request(request, outcome) ==
    CASE request.method = "initialize" ->
           JsonRpcResponse_success(id_or_null(request),
                                   PlainResult("{protocolVersion:2024-11-05}"))
      [] request.method = "notifications/initialized" ->
           JsonRpcResponse_success(id_or_null(request), PlainResult("{}"))
      [] request.method = "tools/list" ->
           JsonRpcResponse_success(id_or_null(request), PlainResult("{tools:[..]}"))
      [] request.method = "tools/call" -> tools_call(request, outcome)
      [] request.method = "ping" ->
           JsonRpcResponse_success(id_or_null(request), PlainResult("{}"))
      [] OTHER -> unknown_method(request)

\* What execute_tool can return for a request (nothing to run unless it is a
\* tools/call with a name).
tool_outcomes(request) ==
    IF request.method = "tools/call" /\ as_str(request.name).some
    THEN execute_tool(as_str(request.name).s, request)
    ELSE { NoOutcome }

code_text(code) ==
    IF code = MethodNotFound THEN "-32601"
    ELSE IF code = InvalidParams THEN "-32602" ELSE "0"

\* serde_json serialisation of a JsonRpcResponse: result and error are skipped
\* when they are None.
to_string(response) ==
    "{jsonrpc:" \o response.jsonrpc \o ",id:" \o response.id
    \o (IF response.result.some
        THEN ",result:{content:" \o response.result.content
             \o (IF response.result.isError THEN ",isError:true" ELSE "") \o "}"
        ELSE "")
    \o (IF response.error.some
        THEN ",error:{code:" \o code_text(response.error.code)
             \o ",message:" \o response.error.message \o "}"
        ELSE "")
    \o "}"

\* Variant: the response is not sent on the channel.
sse_tx_send_nothing(b, data) == b

\* sse_tx.send(data): every stream subscribed now is given the data.
sse_tx_send(b, data) ==
    [b EXCEPT !.channel = Append(@, data),
              !.streams = [u \in DOMAIN @ |-> Append(@[u], data)]]

\* GET /sse: handle_sse subscribes a stream to the channel.
handle_sse(u) ==
    /\ u \notin DOMAIN bridge.streams
    /\ \A v \in Subscribers : v < u => v \in DOMAIN bridge.streams
    /\ bridge' = [bridge EXCEPT !.streams =
                    [v \in DOMAIN @ \cup {u} |-> IF v = u THEN << >> ELSE @[v]]]
    /\ UNCHANGED << manager, ring, batch, store, rec >>

\* POST /message: the request is deserialised and process_request begins.
handle_message(s, request) ==
    /\ bridge.slots[s].pc # "processing"
    /\ \A r \in Slots : r < s => bridge.slots[r].pc = "processing"
    /\ bridge.nrequests < MaxRequests
    /\ bridge' = [bridge EXCEPT !.slots[s] = [IdleSlot EXCEPT !.pc = "processing",
                                                             !.request = request],
                                !.nrequests = @ + 1]
    /\ UNCHANGED << manager, ring, batch, store, rec >>

\* process_request returns (the tool, if any, has run), the response is
\* serialised, sent on the channel and returned in the HTTP body.
handle_message_respond(s) ==
    LET request == bridge.slots[s].request IN
    /\ bridge.slots[s].pc = "processing"
    /\ Unlocked("connections")
    /\ \E outcome \in tool_outcomes(request) :
         LET response == process_request(request, outcome)
             response_json == to_string(response)
             id == send_message_target
             ev == as_str(request.event_name).s
             payload == as_str(request.payload).s
             e == BufferedEvent(ev, payload, "out")
             logged == outcome.effect = "emit" /\ db_write_ok
             answered == [bridge EXCEPT
                            !.slots[s] = [@ EXCEPT !.pc = "done",
                                                   !.outcome = outcome,
                                                   !.response = response,
                                                   !.body = response_json],
                            !.emit_logs = IF logged
                                          THEN Append(@, << id, ev, payload >>)
                                          ELSE @]
         IN
         /\ bridge' = sse_tx_send(answered, response_json)
         /\ IF outcome.effect = "emit"
            THEN /\ sent' = Append(sent, << client_of(connections, id), ev, payload >>)
                 /\ connections' = record_event(connections, id, e)
                 /\ history' = add_event_history(history, id, e, db_write_ok)
                 /\ published' = Append(published, EventNote(id, e))
            ELSE UNCHANGED << connections, history, published, sent >>
    /\ UNCHANGED << active_connection_id, connecting, connected_once, held, call, ret,
                    handles, cb, db_write_ok, auto_send_spawned, ncalls, ncbs,
                    removed_since, attempted, touched, ring, batch, store, rec >>

\* The UI's socket_connect command, issued once.
socket_connect(t, id) ==
    /\ ncalls = 0
    /\ connect(t, id)

\* The bridge answers requests while the UI connects profile 1.
BridgeNext ==
    \/ \E u \in Subscribers : handle_sse(u)
    \/ \E s \in Slots, request \in BridgeRequests : handle_message(s, request)
    \/ \E s \in Slots : handle_message_respond(s)
    \/ \E t \in Threads : socket_connect(t, 1)
    \/ \E t \in Threads : do_connect_fetch(t)
    \/ \E t \in Threads : do_connect_teardown(t)
    \/ \E t \in Threads : do_connect_dial(t)
    \/ \E t \in Threads : do_connect_ok(t)
    \/ \E t \in Threads : do_connect_set_active(t)
    \/ \E t \in Threads : do_connect_err(t)
    \/ \E t \in Threads : do_connect_err_event(t)
    \/ \E t \in Threads : connect_return(t)

SpecBridge == Init /\ [][BridgeNext]_vars

\* handle_message returns the response of slot s in this step.
Responds(s) ==
    /\ bridge.slots[s].pc = "processing"
    /\ bridge'.slots[s].pc = "done"

KnownMethods == {"initialize", "notifications/initialized", "tools/list",
                 "tools/call", "ping"}

\* C18 (as amended): a tools/call request yields a JSON-RPC error member exactly
\* when its name is missing or is not a string, and the code is -32602; when the
\* tool ran, a failure (unknown tool, missing arguments, "Not connected", a
\* transport error) is a success envelope whose result has isError true and the
\* error text as content, and a success is a result without isError.
C18_ToolFailureIsSuccessEnvelope ==
    [][ \A s \in Slots :
          (Responds(s) /\ bridge.slots[s].request.method = "tools/call") =>
            LET request == bridge.slots[s].request
                r == bridge'.slots[s].response
                o == bridge'.slots[s].outcome
                client == IF active_connection_id = NoActive THEN NoClient
                          ELSE client_of(connections, active_connection_id)
            IN
            /\ r.id = id_or_null(request)
            /\ r.error.some <=> request.name.kind # "string"
            /\ r.error.some => r.error.code = InvalidParams /\ ~r.result.some
            /\ ~r.error.some =>
                  /\ r.result.some
                  /\ r.result.isError <=> ~o.ok
                  /\ r.result.content = o.text
            /\ request.name = JString("bogus") =>
                  r.result.isError /\ r.result.content = "Unknown tool: bogus"
            /\ (request.name = JString("send_message")
                  /\ request.event_name.kind # "string") =>
                  r.result.isError /\ r.result.content = "event_name is required"
            /\ (request.name = JString("send_message")
                  /\ request.event_name.kind = "string"
                  /\ request.payload.kind = "string"
                  /\ client = NoClient) =>
                  r.result.isError /\ r.result.content = "Not connected"
            /\ request.name = JString("get_connection_status") => ~r.result.isError
      ]_vars

\* C18 witness: one tools/call whose name is a number was answered with error
\* -32602, and a send_message on no connection was answered with a success
\* envelope that has isError true and the text "Not connected".
C18_NonStringNameAndToolFailure ==
    \E s, q \in Slots :
        /\ bridge.slots[s].pc = "done"
        /\ bridge.slots[s].request.method = "tools/call"
        /\ bridge.slots[s].request.name = JNumber
        /\ bridge.slots[s].response.error.some
        /\ bridge.slots[s].response.error.code = InvalidParams
        /\ bridge.slots[q].pc = "done"
        /\ bridge.slots[q].request.name = JString("send_message")
        /\ ~bridge.slots[q].response.error.some
        /\ bridge.slots[q].response.result.isError
        /\ bridge.slots[q].response.result.content = "Not connected"

\* C18 as stated: a tools/call request yields a JSON-RPC error member if and only
\* if its name argument is missing.
C18_ErrorIffNameMissing ==
    [][ \A s \in Slots :
          (Responds(s) /\ bridge.slots[s].request.method = "tools/call") =>
            (bridge'.slots[s].response.error.some <=>
               bridge.slots[s].request.name.kind = "absent")
      ]_vars

\* C19: a request whose method is not a known one is answered with error -32601
\* under the request's id when it has an id, and with a success envelope that has
\* an empty result and a null id when it has none; the manager's state is left
\* as it was.
C19_UnknownMethod ==
    [][ \A s \in Slots :
          (Responds(s) /\ bridge.slots[s].request.method \notin KnownMethods) =>
            LET request == bridge.slots[s].request
                r == bridge'.slots[s].response
            IN
            /\ request.id # "none" =>
                  /\ r.error.some
                  /\ r.error.code = MethodNotFound
                  /\ r.id = request.id
                  /\ ~r.result.some
            /\ request.id = "none" =>
                  /\ ~r.error.some
                  /\ r.result = PlainResult("{}")
                  /\ r.id = "null"
            /\ UNCHANGED manager
      ]_vars

\* C19 witness: an unknown method with an id was answered with -32601, and one
\* without id with the bare success envelope.
C19_BothUnknownAnswered ==
    \E s, q \in Slots :
        /\ bridge.slots[s].pc = "done"
        /\ bridge.slots[s].request.method = "unknown/method"
        /\ bridge.slots[s].request.id = "7"
        /\ bridge.slots[s].response.error.code = MethodNotFound
        /\ bridge.slots[q].pc = "done"
        /\ bridge.slots[q].request.method = "unknown/method"
        /\ bridge.slots[q].request.id = "none"
        /\ bridge.slots[q].response.result.some

\* C20: answering a request sends one envelope on the push channel, which every
\* subscribed stream is given once, and returns the same envelope in the HTTP
\* body: the serialised response to that request; the other request in flight is
\* not touched, and the channel has carried one envelope per answered request.
C20_OneEnvelopeBothWays ==
    [][ /\ \A s \in Slots :
             Responds(s) =>
               LET body == bridge'.slots[s].body IN
               /\ body = to_string(bridge'.slots[s].response)
               /\ bridge'.slots[s].response.id = id_or_null(bridge.slots[s].request)
               /\ bridge'.slots[s].request = bridge.slots[s].request
               /\ bridge'.channel = Append(bridge.channel, body)
               /\ DOMAIN bridge'.streams = DOMAIN bridge.streams
               /\ \A u \in DOMAIN bridge.streams :
                    bridge'.streams[u] = Append(bridge.streams[u], body)
               /\ \A q \in Slots \ {s} : bridge'.slots[q] = bridge.slots[q]
        /\ (\A s \in Slots : ~Responds(s)) =>
             /\ bridge'.channel = bridge.channel
             /\ \A u \in DOMAIN bridge.streams : bridge'.streams[u] = bridge.streams[u]
        /\ Len(bridge'.channel) =
             bridge'.nrequests
               - Cardinality({ s \in Slots : bridge'.slots[s].pc = "processing" })
      ]_vars

\* C20 witness: two requests were in flight together, the second was answered
\* first, and a subscribed stream was given both envelopes, each equal to the
\* body returned for its request.
C20_TwoConcurrentPairs ==
    /\ bridge.slots[1].pc = "done"
    /\ bridge.slots[2].pc = "done"
    /\ bridge.slots[1].body # bridge.slots[2].body
    /\ bridge.channel = << bridge.slots[2].body, bridge.slots[1].body >>
    /\ 1 \in DOMAIN bridge.streams
    /\ bridge.streams[1] = bridge.channel

\* ------------------------------------------------------------------ C21
\* Thread t's transport emit succeeds in this step (the message goes out).
TransportEmitOk(t) ==
    /\ call[t].pc = "e_transport"
    /\ sent' = Append(sent, << call[t].h, call[t].ev, call[t].payload >>)

\* C21: when the history write fails, an emit whose transport call succeeded still
\* returns Ok, no history row is written, the out event is published, it is the
\* newest entry of the session's buffer when the session exists, and no session
\* is created or removed and no status changes.
C21_PersistFailureKeepsRecord ==
    [][\A t \in Threads :
         (~db_write_ok /\ TransportEmitOk(t)) =>
            LET id == call[t].id IN
            /\ ret' = Ret("emit", id, "Ok")
            /\ history' = history
            /\ published' = Append(published, EventNote(id, OutEvent(t)))
            /\ DOMAIN connections' = DOMAIN connections
            /\ \A i \in DOMAIN connections :
                  connections'[i].status = connections[i].status
            /\ id \in DOMAIN connections =>
                  BufferOf(connections', id) =
                     push(BufferOf(connections, id), OutEvent(t))]_vars

\* An emit has returned Ok although its history row was lost: the event is the
\* newest buffered one of a connected session and was published.
C21_EmitOkWithoutHistoryRow ==
    /\ ~db_write_ok
    /\ ret.op = "emit" /\ ret.res = "Ok"
    /\ sent # << >>
    /\ history = << >>
    /\ ret.id \in DOMAIN connections
    /\ connections[ret.id].status = "connected"
    /\ LET b == BufferOf(connections, ret.id) IN
         /\ b # << >>
         /\ b[Len(b)].direction = "out"
         /\ published[Len(published)] = EventNote(ret.id, b[Len(b)])

\* ------------------------------------------------------------------ C22
\* Handle h is an old handle of its id: a connect attempt for the id has dialled
\* another client, and h was taken out of the session by set_client (its
\* disconnect() is under way or has returned).
Replaced(h) ==
    \E t \in Threads :
       /\ call[t].op = "connect"
       /\ call[t].id = handles[h].id
       /\ call[t].h \notin {NoClient, h}
       /\ call[t].old = h \/ handles[h].state = "closed"

\* C22: the body of a close or error callback of a replaced handle changes no
\* session and records and publishes nothing.
C22_ReplacedHandleCallbackIgnored ==
    [][\A h \in Handles :
         (/\ cb[h].kind \in {"close", "error"}
          /\ cb'[h] = NoCallback
          /\ Replaced(h)) =>
            UNCHANGED << connections, history, published >>]_vars

\* The close callback of the replaced handle was handled while the new attempt
\* is dialling: the new session reads disconnected and has the disconnect event.
C22_OldCloseHitsNewAttempt ==
    \E t \in Threads, h \in Handles :
       /\ call[t].op = "connect" /\ call[t].pc = "c_dialing"
       /\ handles[call[t].h].state = "dialing"
       /\ handles[h].id = call[t].id /\ handles[h].state = "closed"
       /\ ret = Ret("on_close", call[t].id, "handled")
       /\ has_connection(call[t].id)
       /\ connections[call[t].id].status = "disconnected"
       /\ LET b == BufferOf(connections, call[t].id) IN
            b # << >> /\ b[Len(b)].event_name = "disconnect"

\* ------------------------------------------------------------------ C23
Statuses == {"disconnected", "connecting", "connected", "error"}

\* A connect attempt for id publishes `connecting` and enters the dial.
DialStep(id) ==
    \E t \in Threads :
       /\ call[t].op = "connect" /\ call[t].id = id
       /\ call[t].pc = "c_status" /\ call'[t].pc = "c_dialing"

\* The transport connect call of an attempt for id fails.
DialFails(id) ==
    \E t \in Threads :
       /\ call[t].op = "connect" /\ call[t].id = id
       /\ call[t].pc = "c_dialing" /\ call'[t].pc = "c_err_event"

\* The body of a callback of the given kind of a client of id runs.
CallbackBody(id, kind) ==
    \E h \in Handles :
       /\ handles[h].id = id
       /\ cb[h].kind = kind
       /\ cb'[h] # cb[h]

\* disconnect(id) removes the session.
RemoveStep(id) ==
    \E t \in Threads :
       /\ call[t].op = "disconnect" /\ call[t].id = id
       /\ call[t].pc = "d_remove" /\ call'[t].pc = "d_publish"

\* C23 (as amended): the status of id is always one of the four values, and it
\* changes only to `connecting` when a connect attempt enters its dial, to
\* `connected` in a connect callback, to `error` in an error callback or when the
\* transport connect call fails, and to `disconnected` in a close callback or when
\* disconnect(id) removes the session; the status before the change is not
\* restricted.
C23_StatusChangesByCause ==
    [][\A id \in Ids :
         LET old == get_status_for_connection(id)
             new == get_status_for_connection(id)'
         IN
         /\ new \in Statuses
         /\ old # new =>
               \/ new = "connecting" /\ DialStep(id)
               \/ new = "connected" /\ CallbackBody(id, "connect")
               \/ new = "error" /\ (CallbackBody(id, "error") \/ DialFails(id))
               \/ new = "disconnected" /\ (CallbackBody(id, "close") \/ RemoveStep(id))]_vars

\* A second connect(id) on a connected session has published `connecting` right
\* after the connect callback's notifications: connected -> connecting.
C23_ConnectedToConnecting ==
    \E t \in Threads :
       LET id == call[t].id
           n == Len(published)
       IN
       /\ call[t].op = "connect" /\ call[t].pc = "c_dialing"
       /\ get_status_for_connection(id) = "connecting"
       /\ n >= 3
       /\ published[n] = StatusNote(id, "connecting")
       /\ published[n - 1].topic = "socket:event"
       /\ published[n - 2] = StatusNote(id, "connected")

\* C23 as stated: every status change is one of the listed transitions.
C23_OnlyListedTransitions ==
    [][\A id \in Ids :
         LET old == get_status_for_connection(id)
             new == get_status_for_connection(id)'
         IN old # new =>
              << old, new >> \in
                 { << "disconnected", "connecting" >>, << "connecting", "connected" >>,
                   << "connecting", "error" >>, << "connected", "disconnected" >>,
                   << "connected", "error" >> }]_vars

\* ------------------------------------------------------------------ C24
\* A step of emit(id, ..): the call itself or the return of its transport emit.
EmitStep(id) ==
    \/ \E t \in Threads :
          /\ call[t].op = "emit" /\ call[t].id = id
          /\ call[t].pc = "e_transport" /\ call'[t].pc = "idle"
    \/ ret'.op = "emit" /\ ret'.id = id /\ ncalls' = ncalls + 1

\* A step of the failure branch of a connect attempt for id.
FailedConnectStep(id) ==
    \/ DialFails(id)
    \/ \E t \in Threads :
          /\ call[t].op = "connect" /\ call[t].id = id
          /\ call[t].pc \in {"c_err_event", "c_unguard"}
          /\ call[t].res # "Ok"
          /\ call'[t].pc # call[t].pc

C25_NoSessionNoNotification ==
    [][\A t \in Threads :
         (/\ call[t].op = "disconnect"
          /\ call[t].pc = "d_publish"
          /\ call'[t].pc # "d_publish"
          /\ ~call[t].had) => published' = published]_vars

\* disconnect(id) was the only call made, on an id that never had a session, and
\* a disconnected status notification for id is out.
C25_NotifiedWithoutSession ==
    /\ ncalls = 1 /\ ncbs = 0
    /\ ret.op = "disconnect" /\ ret.res = "Ok"
    /\ connections = << >>
    /\ published = << StatusNote(ret.id, "disconnected") >>

\* ------------------------------------------------------------------ C26
\* C26: disconnect(id, reason) first removes the session and takes its handle.
\* With a handle it then publishes the inbound disconnect event carrying reason
\* (and writes its history row when the write succeeds) and enters the transport
\* disconnect of that handle, which was not disconnected before and is left once;
\* without a handle it publishes no event, writes no row and makes no transport
\* call. The transport call's return, Ok or error, leaves the session map as it
\* is: the session stays removed unless a connect or add_listener made it anew.
C26_DisconnectEventIffHandle ==
    [][\A t \in Threads :
         LET id == call[t].id
             e == BufferedEvent("disconnect", << "reason", call[t].reason >>, "in")
         IN
         call[t].op = "disconnect" =>
            /\ (call[t].pc = "d_remove" /\ call'[t].pc # "d_remove") =>
                  /\ call'[t].pc = "d_publish"
                  /\ call'[t].h = client_of(connections, id)
                  /\ id \notin DOMAIN connections'
                  /\ UNCHANGED << history, published >>
                  /\ \A h \in Handles : handles'[h].state = handles[h].state
            /\ (call[t].pc = "d_publish" /\ call'[t].pc # "d_publish") =>
                  IF call[t].h # NoClient
                  THEN /\ call'[t].pc = "d_transport"
                       /\ call'[t].h = call[t].h
                       /\ handles[call[t].h].state # "closed"
                       /\ published' = published \o
                            << StatusNote(id, "disconnected"), EventNote(id, e) >>
                       /\ history' = IF db_write_ok
                                     THEN Append(history, [id |-> id, event |-> e])
                                     ELSE history
                       /\ connections' = connections
                  ELSE /\ call'[t].pc = "idle"
                       /\ ret' = Ret("disconnect", id, "Ok")
                       /\ \A i \in (Len(published) + 1)..Len(published') :
                             published'[i].topic # "socket:event"
                       /\ UNCHANGED << history, connections >>
                       /\ \A h \in Handles : handles'[h].state = handles[h].state
            /\ (call[t].pc = "d_transport" /\ call'[t].pc # "d_transport") =>
                  /\ call'[t].pc = "idle"
                  /\ ret'.op = "disconnect" /\ ret'.res \in {"Ok", "TransportError"}
                  /\ handles[call[t].h].state # "closed"
                  /\ handles'[call[t].h].state = "closed"
                  /\ UNCHANGED << connections, history, published >>
                  /\ ~touched[id] => id \notin DOMAIN connections']_vars

\* disconnect(id, reason) of a session with a handle has returned the transport's
\* error: the session is gone, the handle is closed, and the event carrying the
\* reason is in the history and was published.
C26_FailedTransportDisconnect ==
    \E h \in Handles, r \in Reasons :
       LET id == handles[h].id
           e == BufferedEvent("disconnect", << "reason", r >>, "in")
       IN
       /\ ret = Ret("disconnect", id, "TransportError")
       /\ handles[h].state = "closed"
       /\ id \notin DOMAIN connections
       /\ history # << >> /\ history[Len(history)] = [id |-> id, event |-> e]
       /\ \E i \in DOMAIN published : published[i] = EventNote(id, e)

\* ------------------------------------------------------------------ C27
\* Thread t's connect finds no profile in this step and returns the error (to its
\* caller, or to the bridge tool that waits for it).
ProfileNotFound(t) ==
    /\ call[t].op = "connect"
    /\ call[t].pc = "c_db"
    /\ \/ call'[t].pc = "idle" /\ ret'.id = call[t].id
          /\ ret'.res = "Connection not found"
       \/ call'[t].pc = "b_reset_err" /\ call'[t].res = "Connection not found"

\* C27: a connect(id) that finds no stored profile returns "Connection not found"
\* and leaves the session map (entries, statuses, installed handles), every
\* transport client, the notifications, the history and the active id as they
\* were; the id is not in the connecting guard afterwards.
C27_ProfileNotFoundNoEffect ==
    [][\A t \in Threads :
         ProfileNotFound(t) =>
            /\ UNCHANGED << connections, handles, published, history, sent,
                            active_connection_id, connected_once >>
            /\ call[t].id \notin connecting']_vars

\* connect(id) on a connected session whose profile is gone has returned the
\* error: the session is still connected through its installed client.
C27_NotFoundKeepsSession ==
    \E id \in Ids :
       /\ ret = Ret("connect", id, "Connection not found")
       /\ id \notin connecting
       /\ id \in DOMAIN connections
       /\ connections[id].status = "connected"
       /\ connections[id].client # NoClient
       /\ handles[connections[id].client].state = "up"

\* ------------------------------------------------------------------ C28
\* C28 (as amended): when the transport connect call of an attempt for id fails,
\* the error status is published and, if id has a session at that moment, its
\* status becomes error and its client field is left as it was (the attempt
\* installs nothing); the connect_error event and the error notification are
\* published next, and the call returns the transport's error with id out of the
\* connecting guard. A session that a disconnect(id) removed during the dial is
\* not created again.
C28_FailedDialReported ==
    [][\A t \in Threads :
         LET id == call[t].id
             e == BufferedEvent("connect_error", << "message", "dial failed" >>, "in")
         IN
         call[t].op = "connect" =>
            /\ (call[t].pc = "c_dialing" /\ call'[t].pc = "c_err_event") =>
                  /\ handles'[call[t].h].state = "failed"
                  /\ published' = Append(published, StatusNote(id, "error"))
                  /\ DOMAIN connections' = DOMAIN connections
                  /\ id \in DOMAIN connections =>
                        /\ connections'[id].status = "error"
                        /\ connections'[id].client = connections[id].client
            /\ (call[t].pc = "c_err_event" /\ call'[t].pc # "c_err_event") =>
                  /\ call'[t].pc = "c_unguard"
                  /\ call'[t].res = "TransportError"
                  /\ published' = published \o
                       << EventNote(id, e),
                          [topic |-> "socket:error", id |-> id,
                           message |-> "dial failed"] >>
                  /\ DOMAIN connections' = DOMAIN connections
                  /\ id \in DOMAIN connections =>
                        /\ connections'[id].status = connections[id].status
                        /\ connections'[id].client = connections[id].client
            /\ (call[t].pc = "c_unguard" /\ call[t].res = "TransportError"
                 /\ call'[t].pc # "c_unguard") =>
                  /\ id \notin connecting'
                  /\ connections' = connections
                  /\ \/ ret' = Ret("connect", id, "TransportError")
                     \/ ret' = Ret("task_connect", id, "TransportError")
                     \/ call'[t].pc = "b_reset_err" /\ call'[t].res = "TransportError"]_vars

\* The attempt for id failed in the transport and returned; the session is in
\* the map with status error and no client, the error notification is out, and
\* a retry, the only other call made, has passed the guard.
C28_RetryAfterFailedDial ==
    \E t \in Threads, h \in Handles :
       LET id == call[t].id IN
       /\ ncalls = 2 /\ ncbs = 0
       /\ \A u \in Threads \ {t} : call[u].pc = "idle"
       /\ call[t].op = "connect" /\ call[t].pc = "c_db" /\ call[t].tool = "none"
       /\ id \in connecting
       /\ handles[h].id = id /\ handles[h].state = "failed"
       /\ id \in DOMAIN connections
       /\ connections[id].status = "error"
       /\ connections[id].client = NoClient
       /\ published[Len(published)] = ErrorNote(id, "dial failed")

\* C28 as stated: whenever connect(id) has returned the transport's error, the
\* session exists with status error and no handle, the error notification was
\* published and id is not in the guard.
C28_ErrorSessionAfterFailedDial ==
    \A id \in Ids :
       ret = Ret("connect", id, "TransportError") =>
          /\ id \in DOMAIN connections
          /\ connections[id].status = "error"
          /\ connections[id].client = NoClient
          /\ \E i \in DOMAIN published : published[i] = ErrorNote(id, "dial failed")
          /\ id \notin connecting

\* ------------------------------------------------------------------ C29
\* Thread t's connect has read the profile and the subscription rows in this step
\* and seeded the session with them.
FetchDone(t) ==
    /\ call[t].op = "connect"
    /\ call[t].pc = "c_db"
    /\ call'[t].pc = "c_teardown"

ConnectCompleted(t) ==
    /\ call[t].op = "connect"
    /\ call[t].pc = "c_unguard"
    /\ call[t].res = "Ok"
    /\ ~call[t].cleared

\* C30: when connect(id) completes, every name that add_listener had put into
\* id's forwarding set when the call began (and remove_listener has not removed
\* since) is still forwarded.
C30_EarlyListenerForwarded ==
    \A t \in Threads :
       ConnectCompleted(t) =>
          \A name \in call[t].listened : should_forward_event(call[t].id, name)

\* connect(id) has completed after add_listener(id, name) added a name that is
\* not an enabled stored subscription: the forwarding set holds the stored names
\* only, and an inbound event of the added name has just been dropped.
C30_EarlyListenerDropped ==
    \E t \in Threads :
       LET id == call[t].id IN
       /\ ConnectCompleted(t)
       /\ ncalls = 2
       /\ id \in DOMAIN connections
       /\ \E name \in call[t].listened :
             /\ name \in InboundNames
             /\ ~should_forward_event(id, name)
       /\ ret = Ret("on_any", id, "filtered")

\* ------------------------------------------------------------------ C31
\* The on_any callback of handle h records and publishes its event in this step:
\* its name was in the forwarding set when the callback consulted it.
AnyEmitted(h) == cb[h].kind = "any_emit" /\ cb'[h] # cb[h]

\* C31: an inbound event whose name was in the forwarding set is published, is
\* persisted when the write succeeds and is the newest entry of its session's
\* buffer; an inbound event of a server name is published in no other step.
C31_ForwardedIsRecorded ==
    [][/\ \A h \in Handles :
            AnyEmitted(h) =>
               LET id == handles[h].id
                   e == BufferedEvent(cb[h].name, "data", "in")
                   b == BufferOf(connections', id)
               IN
               /\ published' = Append(published, EventNote(id, e))
               /\ db_write_ok => history' = Append(history, [id |-> id, event |-> e])
               /\ b # << >> /\ b[Len(b)] = e
       /\ \A i \in (Len(published) + 1)..Len(published') :
            (/\ published'[i].topic = "socket:event"
             /\ published'[i].event.event_name \in InboundNames) =>
               \E h \in Handles :
                  /\ AnyEmitted(h)
                  /\ published'[i].id = handles[h].id
                  /\ published'[i].event.event_name = cb[h].name]_vars

\* An inbound event was handled after disconnect(id) had removed the session it
\* was checked against: it was published and persisted, and no buffer holds it.
C31_PublishedButNotBuffered ==
    \E id \in Ids, n \in InboundNames :
       LET e == BufferedEvent(n, "data", "in") IN
       /\ ret = Ret("on_any", id, "handled")
       /\ id \notin DOMAIN connections
       /\ db_write_ok
       /\ history # << >> /\ history[Len(history)] = [id |-> id, event |-> e]
       /\ published[Len(published)] = EventNote(id, e)

\* ============================================ bridge listener tools and table
MaxToolCalls == 2      \* add_event_listener / remove_event_listener calls in a run
MaxUiEdits == 1        \* connection_events edits made from the UI in a run

ToolInputs == {"alerts", " news", " "}   \* event_name arguments of the tools
UiNames == { trim(n) : n \in ToolInputs } \ {""}   \* event names the UI adds
PaddedInputs == {" news", " "}   \* event_name arguments of the listener commands

\* existing.iter().find(|(_, name, _)| name == event_name): the position of the
\* first row of the connection with that name, 0 when there is none.
first_named(rows, conn, name) ==
    LET hits == { i \in DOMAIN rows : rows[i].conn = conn /\ rows[i].name = name } IN
    IF hits = {} THEN 0 ELSE CHOOSE i \in hits : \A j \in hits : i <= j

\* Whether an enabled subscription of the connection for the name is stored.
enabled_subscription(rows, conn, name) ==
    \E i \in DOMAIN rows : rows[i].conn = conn /\ rows[i].name = name /\ rows[i].on

\* db::add_connection_event: a new row, is_listening defaulting to 1; the table
\* has no uniqueness constraint on (connection_id, event_name).
db_add_connection_event(rows, conn, name) ==
    Append(rows, [conn |-> conn, name |-> name, on |-> TRUE])

\* db::toggle_connection_event: UPDATE ... WHERE id = ?.
db_toggle_connection_event(rows, i, flag) ==
    IF i \in DOMAIN rows THEN [rows EXCEPT ![i].on = flag] ELSE rows

\* What the tool steps leave alone.
tool_frame == << active_connection_id, connecting, connected_once, held, call,
                 handles, cb, db_write_ok, history, published, sent,
                 auto_send_spawned, ncalls, ncbs, removed_since, attempted,
                 ring, batch, bridge, rec >>

\* The tool in slot s returns res.
tool_return(st, s, res) ==
    [st EXCEPT !.tools[s] = IdleTool,
               !.nret = @ + 1,
               !.last = [op |-> st.tools[s].op, name |-> st.tools[s].name,
                         mem |-> st.tools[s].mem, conn |-> st.tools[s].conn,
                         res |-> res]]

\* execute_tool "add_event_listener", up to socket.add_listener(event_name).
tool_add_event_listener(s, input) ==
    LET name == trim(input)
        mem == active_connection_id
        begun == [store EXCEPT !.ntools = @ + 1,
                               !.tools[s] = [IdleTool EXCEPT !.pc = "read", !.op = "add",
                                                             !.name = name, !.mem = mem]]
    IN
    /\ store.ntools < MaxToolCalls
    /\ store.tools[s].pc = "idle"
    /\ Unlocked("connections")
    /\ IF name = ""
       THEN /\ store' = tool_return(begun, s, "Event name cannot be empty")
            /\ UNCHANGED << connections, touched >>
       ELSE IF mem = NoActive
       THEN /\ store' = [begun EXCEPT !.unbound = @ \cup {name}]
            /\ UNCHANGED << connections, touched >>
       ELSE /\ store' = begun
            /\ connections' = [entry_or_insert(connections, mem) EXCEPT
                                 ![mem].listening_events = @ \cup {name}]
            /\ touched' = [touched EXCEPT ![mem] = TRUE]
    /\ ret' = NoRet
    /\ UNCHANGED tool_frame

\* execute_tool "remove_event_listener", up to socket.remove_listener(event_name).
tool_remove_event_listener(s, input) ==
    LET name == trim(input)
        mem == active_connection_id
        begun == [store EXCEPT !.ntools = @ + 1,
                               !.tools[s] = [IdleTool EXCEPT !.pc = "read", !.op = "remove",
                                                             !.name = name, !.mem = mem]]
    IN
    /\ store.ntools < MaxToolCalls
    /\ store.tools[s].pc = "idle"
    /\ Unlocked("connections")
    /\ IF mem = NoActive
       THEN /\ store' = [begun EXCEPT !.unbound = @ \ {name}]
            /\ UNCHANGED connections
       ELSE /\ store' = begun
            /\ connections' = IF mem \in DOMAIN connections
                              THEN [connections EXCEPT ![mem].listening_events = @ \ {name}]
                              ELSE connections
    /\ UNCHANGED touched
    /\ ret' = NoRet
    /\ UNCHANGED tool_frame

\* socket.get_current_connection_id() and db::list_connection_events: without an
\* active connection the tool returns; a failed read returns the error.
tool_list_connection_events(s) ==
    LET tl == store.tools[s]
        conn == get_current_connection_id
    IN
    /\ tl.pc = "read"
    /\ Unlocked("active")
    /\ IF conn = NoActive
       THEN store' = tool_return(store, s,
                        IF tl.op = "add" THEN "Listener added (not persisted)"
                                         ELSE "Listener removed")
       ELSE \E db_read_ok \in BOOLEAN :
               IF db_read_ok
               THEN store' = [store EXCEPT !.tools[s].pc = "write",
                                           !.tools[s].conn = conn,
                                           !.tools[s].existing = store.rows]
               ELSE store' = tool_return([store EXCEPT !.tools[s].conn = conn], s,
                                         "database error")
    /\ UNCHANGED << connections, touched >>
    /\ ret' = NoRet
    /\ UNCHANGED tool_frame

\* The tool's write, decided on the rows it read: add inserts a row when none has
\* the name and re-enables the first one when it is disabled; remove disables the
\* first row with the name when it is enabled. A failed write returns the error.
tool_persist(s) ==
    LET tl == store.tools[s]
        first == first_named(tl.existing, tl.conn, tl.name)
        writes == IF tl.op = "add"
                  THEN first = 0 \/ ~tl.existing[first].on
                  ELSE first # 0 /\ tl.existing[first].on
        written == IF tl.op = "add"
                   THEN IF first = 0
                        THEN db_add_connection_event(store.rows, tl.conn, tl.name)
                        ELSE db_toggle_connection_event(store.rows, first, TRUE)
                   ELSE db_toggle_connection_event(store.rows, first, FALSE)
        done == IF tl.op = "add" THEN "Listener added and persisted"
                                 ELSE "Listener removed"
    IN
    /\ tl.pc = "write"
    /\ IF ~writes
       THEN store' = tool_return(store, s, done)
       ELSE IF db_write_ok
       THEN store' = tool_return([store EXCEPT !.rows = written], s, done)
       ELSE store' = tool_return(store, s, "database error")
    /\ UNCHANGED << connections, touched >>
    /\ ret' = NoRet
    /\ UNCHANGED tool_frame

\* connection::add_connection_event, the UI command: an unconditional insert.
ui_add_connection_event(conn, name) ==
    /\ store.nedits < MaxUiEdits
    /\ store' = [store EXCEPT !.nedits = @ + 1,
                              !.rows = IF db_write_ok
                                       THEN db_add_connection_event(@, conn, name)
                                       ELSE @]
    /\ UNCHANGED << connections, touched >>
    /\ ret' = NoRet
    /\ UNCHANGED tool_frame

\* connection::toggle_connection_event, the UI command.
ui_toggle_connection_event(i, flag) ==
    /\ store.nedits < MaxUiEdits
    /\ i \in DOMAIN store.rows
    /\ store' = [store EXCEPT !.nedits = @ + 1,
                              !.rows = IF db_write_ok
                                       THEN db_toggle_connection_event(@, i, flag)
                                       ELSE @]
    /\ UNCHANGED << connections, touched >>
    /\ ret' = NoRet
    /\ UNCHANGED tool_frame

ListenersNext ==
    \/ \E s \in ToolSlots, n \in ToolInputs : tool_add_event_listener(s, n)
    \/ \E s \in ToolSlots, n \in ToolInputs : tool_remove_event_listener(s, n)
    \/ \E s \in ToolSlots : tool_list_connection_events(s)
    \/ \E s \in ToolSlots : tool_persist(s)
    \/ \E id \in ProfileIds, n \in UiNames : ui_add_connection_event(id, n)
    \/ \E i \in 1..(Len(db_list_connection_events(1)) + MaxToolCalls + MaxUiEdits), flag \in BOOLEAN :
          ui_toggle_connection_event(i, flag)
    \/ \E id \in Ids, n \in PaddedInputs : add_listener(id, n)
    \/ \E id \in Ids, n \in PaddedInputs : remove_listener(id, n)
    \/ \E id \in ProfileIds : set_active_connection(id)
    \/ clear_active_connection

SpecListeners == Init /\ [][ListenersNext]_vars

\* A listener tool returned in this step.
ToolReturned == store'.nret = store.nret + 1

\* The last tool call succeeded.
ToolSucceeded ==
    store.last.res \in {"Listener added and persisted",
                        "Listener added (not persisted)", "Listener removed"}

\* C32: when a bridge listener tool returns success having seen an active
\* connection, the runtime and the persisted set agree on the name: after
\* add_event_listener the name is in the forwarding set of that connection, an
\* enabled stored subscription for it exists and persistence is reported; after
\* remove_event_listener the name is in neither. Having seen no active connection,
\* the tool leaves the table alone and add reports not persisted.
C32_ToolsKeepSetsInStep ==
    [][ (ToolReturned /\ ToolSucceeded') =>
          LET l == store'.last
              listening(id) == IF id \in DOMAIN connections'
                               THEN connections'[id].listening_events ELSE {}
          IN
          /\ (l.conn # NoActive /\ l.op = "add") =>
                /\ l.name \in listening(l.conn)
                /\ enabled_subscription(store'.rows, l.conn, l.name)
                /\ l.res = "Listener added and persisted"
          /\ (l.conn # NoActive /\ l.op = "remove") =>
                /\ l.name \notin listening(l.conn)
                /\ ~enabled_subscription(store'.rows, l.conn, l.name)
          /\ l.conn = NoActive =>
                /\ store'.rows = store.rows
                /\ l.op = "add" => l.res = "Listener added (not persisted)"
      ]_vars

\* C32 witness: the only tool call of the run, remove_event_listener on the active
\* connection, has returned "Listener removed" and taken the name out of the
\* forwarding set, and an enabled stored subscription for the name is still there:
\* the table holds two rows for the name and only the first was disabled.
C32_RemovedButStillSubscribed ==
    /\ store.ntools = 1
    /\ store.last.op = "remove"
    /\ store.last.res = "Listener removed"
    /\ store.last.conn # NoActive
    /\ store.last.mem = store.last.conn
    /\ store.last.name \notin list_listeners(store.last.conn)
    /\ enabled_subscription(store.rows, store.last.conn, store.last.name)
    /\ \E i, j \in DOMAIN store.rows :
          /\ i < j
          /\ store.rows[i].conn = store.last.conn /\ store.rows[j].conn = store.last.conn
          /\ store.rows[i].name = store.last.name /\ store.rows[j].name = store.last.name
          /\ ~store.rows[i].on /\ store.rows[j].on

\* C39: remove_listener(id, n) right after a successful add_listener(id, n) with
\* the same argument leaves trim(n) out of list_listeners(id); an add_listener
\* whose argument is empty after trimming fails and changes neither the sessions
\* nor any listener set.
C39_AddThenRemoveLeavesOut ==
    [][ \A id \in Ids, n \in PaddedInputs :
          /\ (/\ trim(n) # ""
              /\ ret = RetArg("add_listener", id, "Ok", n)
              /\ ret' = RetArg("remove_listener", id, "Ok", n))
                => trim(n) \notin (IF id \in DOMAIN connections'
                                   THEN connections'[id].listening_events ELSE {})
          /\ (trim(n) = "" /\ ret' = RetArg("add_listener", id, "Ok", n)) => FALSE
          /\ ret' = RetArg("add_listener", id, "Event name cannot be empty", n)
                => trim(n) = "" /\ UNCHANGED connections
      ]_vars

\* C39 witness: the run consists of add_listener(id, " news") and then
\* remove_listener(id, " news"), and the session still forwards "news".
C39_PaddedNameStillListened ==
    \E id \in Ids :
        /\ ncalls = 2
        /\ store.ntools = 0 /\ store.nedits = 0
        /\ ret = RetArg("remove_listener", id, "Ok", " news")
        /\ trim(" news") = "news"
        /\ "news" \in list_listeners(id)

\* The event names the transport accepted, in order.
SentNames == [k \in DOMAIN sent |-> sent[k][2]]

\* C33: a batch ends only after its last template or at a status check that read
\* something other than connected, never at a failed emit; it moves through the
\* templates one by one in template order; and the outbound events published are
\* those of the templates the transport accepted, in that order.
C33_FailedEmitDoesNotAbort ==
    [][ /\ (batch'.pc = "done" /\ batch.pc # "done") =>
              \/ batch.i = Len(batch.messages)
              \/ batch.pc = "a_sleep" /\ get_status_for_connection(batch.id) # "connected"
        /\ (batch.pc \in {"a_emit", "a_transport"} /\ batch'.pc = "a_sleep") =>
              batch'.i = batch.i + 1
        /\ batch'.pc \in {"a_emit", "a_transport"} => batch'.i = batch.i
        /\ OutboundNames(published') = SentNames'
      ]_vars

\* C33 witness: the emit of the first template failed (the transport accepted
\* nothing), the batch went on, and the second template was accepted and
\* published while the status was connected.
C33_SecondSentAfterFirstFailed ==
    /\ batch.i >= 2
    /\ batch.saw = "connected"
    /\ SentNames = << batch.messages[2][1] >>
    /\ OutboundNames(published) = << batch.messages[2][1] >>

\* C34: whenever the status of a session reads connected, the session holds a
\* transport handle and that handle is up, so that emit_message(id, ..), which
\* takes the session's client, does not find None and return "Not connected".
C34_ConnectedHasLiveHandle ==
    \A id \in DOMAIN connections :
        connections[id].status = "connected" =>
            /\ client_of(connections, id) # NoClient
            /\ handles[client_of(connections, id)].state = "up"

\* C34 witness: the connect callback of the handle connect(id) is still dialling
\* has set the status to connected, and do_connect has not installed the handle
\* yet: the session reads connected and holds no client.
C34_ConnectedBeforeInstall ==
    \E t \in Threads :
        /\ call[t].op = "connect"
        /\ call[t].pc = "c_dialing"
        /\ call[t].id \in DOMAIN connections
        /\ connections[call[t].id].status = "connected"
        /\ client_of(connections, call[t].id) = NoClient
        /\ handles[call[t].h].state = "up"
        /\ handles[call[t].h].id = call[t].id

\* The connect call of thread t returns in this step.
ConnectReturns(t) ==
    call[t].op = "connect" /\ call[t].pc # "idle" /\ call'[t].pc = "idle"

\* C35: when a connect(id) call returns, a disconnect(id) that began after it did
\* has returned, and nothing else for id is running or was begun since, then id
\* has no session and so no transport handle installed.
C35_NoHandleSurvivesDisconnect ==
    [][ \A t \in Threads :
          ( /\ ConnectReturns(t)
            /\ removed_since[call[t].id]
            /\ removed_since'[call[t].id]
            /\ ~ConnectInFlight(call[t].id)' ) =>
              /\ call[t].id \notin DOMAIN connections'
              /\ client_of(connections', call[t].id) = NoClient
      ]_vars

\* C35 witness: connect(id) has just returned Ok, a disconnect(id) that began
\* during the attempt returned before it, nothing for id is running, and the
\* session of id is back with the attempt's handle installed and up.
C35_HandleInstalledAfterDisconnect ==
    \E id \in Ids :
        /\ ret = Ret("connect", id, "Ok")
        /\ removed_since[id]
        /\ ~ConnectInFlight(id)
        /\ id \in DOMAIN connections
        /\ client_of(connections, id) # NoClient
        /\ handles[client_of(connections, id)].state = "up"
        /\ handles[client_of(connections, id)].returned

\* The auto-send threads of id that were spawned and have not run to the end of
\* do_auto_send: all those spawned, less the first one once it is done.
batches_in_progress(id) ==
    auto_send_spawned[id] - (IF batch.id = id /\ batch.pc = "done" THEN 1 ELSE 0)

\* C36: for each id at most one auto-send thread is in progress at any time, and a
\* batch hands each template to the transport at most once.
C36_OneBatchAtATime ==
    /\ \A id \in Ids : batches_in_progress(id) <= 1
    /\ \A j, k \in DOMAIN batch.handed : j # k => batch.handed[j] # batch.handed[k]

\* C36 witness: the first auto-send thread of id is in its loop, between two
\* templates, and a connect callback has spawned a second thread for the same id.
C36_SecondBatchWhileFirstRuns ==
    /\ batch.pc \in {"a_sleep", "a_emit", "a_transport"}
    /\ batch.i >= 2
    /\ auto_send_spawned[batch.id] = 2

\* ============================== emit_status and emit_event, step by step
MaxEmits == 3          \* emit_status / emit_event calls begun in a run

\* A buffered event with the timestamp emit_event took for it.
StampedEvent(name, dir, ts) ==
    [event_name |-> name, payload |-> "{}", direction |-> dir, timestamp |-> ts]

\* What the steps of the emit calls leave alone.
emit_frame == << active_connection_id, connecting, connected_once, held, call,
                 handles, cb, db_write_ok, sent, auto_send_spawned, ncalls, ncbs,
                 removed_since, attempted, touched, ring, batch, bridge, store >>

\* emit_status, first half: set_status writes the status under the connections
\* lock. The callers have found the session (has_connection) or made it.
emit_status_set(w, id, status) ==
    /\ rec.nemits < MaxEmits
    /\ rec.workers[w].pc = "idle"
    /\ has_connection(id)
    /\ Unlocked("connections")
    /\ connections' = set_status(connections, id, status)
    /\ rec' = [rec EXCEPT !.nemits = @ + 1,
                          !.writes[id] = Append(@, status),
                          !.workers[w] = [IdleWorker EXCEPT !.pc = "s_publish", !.id = id,
                                                            !.status = status]]
    /\ ret' = NoRet
    /\ UNCHANGED << history, published >>
    /\ UNCHANGED emit_frame

\* emit_status, second half: app_handle.emit(SOCKET_STATUS_EVENT, payload).
emit_status_publish(w) ==
    LET wk == rec.workers[w] IN
    /\ wk.pc = "s_publish"
    /\ published' = Append(published, StatusNote(wk.id, wk.status))
    /\ rec' = [rec EXCEPT !.workers[w] = IdleWorker]
    /\ ret' = Ret("emit_status", wk.id, wk.status)
    /\ UNCHANGED << connections, history >>
    /\ UNCHANGED emit_frame

\* emit_event / emit_outgoing_event, the first line: Utc::now() is read.
emit_event_now(w, id, name, dir) ==
    /\ rec.nemits < MaxEmits
    /\ rec.workers[w].pc = "idle"
    /\ has_connection(id)
    /\ rec' = [rec EXCEPT !.nemits = @ + 1,
                          !.clock = @ + 1,
                          !.workers[w] = [IdleWorker EXCEPT !.pc = "e_record", !.id = id,
                                                            !.name = name, !.dir = dir,
                                                            !.ts = rec.clock]]
    /\ ret' = NoRet
    /\ UNCHANGED << connections, history, published >>
    /\ UNCHANGED emit_frame

\* record_event: the event is pushed under the connections lock and the history
\* row written.
emit_event_record(w) ==
    LET wk == rec.workers[w]
        e == StampedEvent(wk.name, wk.dir, wk.ts)
    IN
    /\ wk.pc = "e_record"
    /\ Unlocked("connections")
    /\ connections' = record_event(connections, wk.id, e)
    /\ history' = add_event_history(history, wk.id, e, db_write_ok)
    /\ rec' = [rec EXCEPT !.workers[w].pc = "e_publish"]
    /\ ret' = NoRet
    /\ UNCHANGED published
    /\ UNCHANGED emit_frame

\* emit_event / emit_outgoing_event, the end: app_handle.emit(SOCKET_EVENT_EVENT).
emit_event_publish(w) ==
    LET wk == rec.workers[w]
        e == StampedEvent(wk.name, wk.dir, wk.ts)
    IN
    /\ wk.pc = "e_publish"
    /\ published' = Append(published, EventNote(wk.id, e))
    /\ rec' = [rec EXCEPT !.workers[w] = IdleWorker]
    /\ ret' = Ret("emit_event", wk.id, wk.name)
    /\ UNCHANGED << connections, history >>
    /\ UNCHANGED emit_frame

\* Sessions are made by add_listener; the callback thread and a command thread
\* then write statuses and record inbound and outbound events.
EmitNext ==
    \/ \E id \in Ids, n \in ListenerInputs : add_listener(id, n)
    \/ \E w \in Workers, id \in Ids, s \in Statuses : emit_status_set(w, id, s)
    \/ \E w \in Workers : emit_status_publish(w)
    \/ \E w \in Workers, id \in Ids : emit_event_now(w, id, "chat", "in")
    \/ \E w \in Workers, id \in Ids, n \in EmitNames : emit_event_now(w, id, n, "out")
    \/ \E w \in Workers : emit_event_record(w)
    \/ \E w \in Workers : emit_event_publish(w)

SpecEmit == Init /\ [][EmitNext]_vars

\* The statuses of the status notifications published for id, in order.
RECURSIVE PublishedStatuses(_, _)
PublishedStatuses(notes, id) ==
    IF notes = << >> THEN << >>
    ELSE LET n == Head(notes)
             rest == PublishedStatuses(Tail(notes), id)
         IN IF n.topic = "socket:status" /\ n.id = id
            THEN << n.status >> \o rest
            ELSE rest

\* No emit_status or emit_event call is in progress.
Quiescent == \A w \in Workers : rec.workers[w].pc = "idle"

\* C37: once no emit call is in progress, the status notifications published for
\* id are the status writes made to its session, in the order of the writes, and
\* the last one published equals status(id).
C37_PublishedInWriteOrder ==
    \A id \in Ids :
        (Quiescent /\ rec.writes[id] # << >>) =>
            /\ PublishedStatuses(published, id) = rec.writes[id]
            /\ rec.writes[id][Len(rec.writes[id])] = get_status_for_connection(id)
            /\ PublishedStatuses(published, id)[Len(rec.writes[id])]
                 = get_status_for_connection(id)

\* C37 witness: two threads wrote connected and then disconnected to the session
\* of id, both calls are over, and the notifications came out the other way
\* round: the last published status is connected, status(id) is disconnected.
C37_StalePublishedLast ==
    \E id \in Ids :
        /\ Quiescent
        /\ rec.writes[id] = << "connected", "disconnected" >>
        /\ PublishedStatuses(published, id) = << "disconnected", "connected" >>
        /\ get_status_for_connection(id) = "disconnected"

\* C38: the events in every session's buffer are in non-decreasing timestamp
\* order, oldest first.
C38_BufferInTimestampOrder ==
    \A id \in DOMAIN connections :
        \A i, j \in DOMAIN connections[id].event_buffer :
            i < j => connections[id].event_buffer[i].timestamp
                       <= connections[id].event_buffer[j].timestamp

\* C38 witness: an inbound event stamped first was pushed after an outbound event
\* stamped later, so the buffer holds the later timestamp before the earlier one.
C38_LaterStampedFirst ==
    \E id \in DOMAIN connections :
        LET b == connections[id].event_buffer IN
        /\ Len(b) = 2
        /\ b[1].direction = "out" /\ b[2].direction = "in"
        /\ b[1].timestamp > b[2].timestamp

\* The session of id as the manager holds it (status, client, listener set and
\* buffer), or that there is none.
SessionOf(conns, id) ==
    IF id \in DOMAIN conns THEN << TRUE, conns[id] >> ELSE << FALSE >>

\* This step belongs to an operation or a transport callback for id: a thread
\* moves in a call for id, a callback of one of id's handles starts or moves, or
\* a listener command for id ran.
StepFor(id) ==
    \/ \E t \in Threads :
          /\ call'[t].pc # call[t].pc
          /\ id = (IF call[t].op # "idle" THEN call[t].id ELSE call'[t].id)
    \/ \E h \in Handles : cb'[h] # cb[h] /\ handles[h].id = id
    \/ ret'.op \in {"add_listener", "remove_listener"} /\ ret'.id = id

\* C40: a step changes the session of an id (its entry, status, client, listener
\* set or buffer) only when it belongs to an operation or callback for that id.
C40_SessionsIndependent ==
    [][ \A id \in Ids :
          SessionOf(connections', id) # SessionOf(connections, id) => StepFor(id)
      ]_vars

\* C40 witness: disconnect(1) has returned and removed the session of id 1 while
\* the session of id 2, with a listener, is still there.
C40_OtherSessionKept ==
    /\ ret = Ret("disconnect", 1, "Ok")
    /\ 1 \notin DOMAIN connections
    /\ 2 \in DOMAIN connections
    /\ connections[2].listening_events # {}
    /\ removed_since[1]

====
